---- MODULE Spec2Model ----
(***************************************************************************)
(* The ring_hash load-balancing policy of                                  *)
(* src/core/ext/filters/client_channel/lb_policy/ring_hash/ring_hash.cc.   *)
(*                                                                         *)
(* The specifications share the variables:                                 *)
(*   Spec      the control plane: UpdateLocked, the per-subchannel         *)
(*             connectivity callbacks (any state may be reported at any    *)
(*             time) and ShutdownLocked;                                   *)
(*   LiveSpec  the same callback handler driven by subchannels that react  *)
(*             to AttemptToConnect (CONNECTING, then READY or              *)
(*             TRANSIENT_FAILURE) and that may drop a connection, with     *)
(*             the connection attempter's task and weak fairness on the    *)
(*             watcher notifications;                                      *)
(*   PickSpec  Picker::Pick as a function of a ring and a request hash;    *)
(*   AttributeSpec  the parse of the request-hash call attribute;          *)
(*   StickySpec  Pick called again and again on one picker;                *)
(*   RingSpec  the ring builder of the Picker constructor, in binary64;    *)
(*   FilterSpec  the first update, from its addresses to the ring;         *)
(*   RaceSpec  Picks on published pickers and attempter tasks against      *)
(*             updates, callbacks and shutdown, with subchannel reference  *)
(*             counts; RaceFairSpec adds that scheduled tasks run;         *)
(*   RemovalSpec  the rings built before and after an update that removes  *)
(*             one endpoint, and the lookups on both;                      *)
(*   StepSpec  one Pick run loop iteration by loop iteration;              *)
(*             StepFairSpec adds that the calling thread keeps running;    *)
(*   LifetimeSpec  the references to the policy that subchannel lists,     *)
(*             pickers and attempters take and release.                    *)
(***************************************************************************)
EXTENDS Integers, Sequences, FiniteSets

VARIABLES
    subchannel_list_,  \* RingHash::subchannel_list_ (NoList when null)
    shutdown_,         \* RingHash::shutdown_
    published,         \* the last channel_control_helper()->UpdateState call
    pending,           \* LiveSpec: subchannels with AttemptToConnect requested since their last callback
    last,              \* the last policy entry point that ran, with the calls it made
    connectable,       \* LiveSpec: whether a connection attempt on subchannel i succeeds
    ring_,             \* PickSpec: Picker::ring_ of the picker under test
    pick,              \* PickSpec: the request hash and the PickResult of the last Pick
    remembered,        \* StickySpec: an earlier Pick of the picker under test
    built,             \* RingSpec: the inputs and the outcome of the ring builder
    generation,        \* RaceSpec: how many subchannel lists UpdateLocked has created
    orphaned,          \* RaceSpec: the lists that were replaced or reset, by generation
    pickers,           \* RaceSpec: the Pickers not yet destroyed, by slot
    attempters,        \* RaceSpec: the SubchannelConnectionAttempters not yet deleted
    refs,              \* RaceSpec: the reference count of every subchannel created
    notified,          \* RaceSpec: the notifications each list has received
    calls,             \* RaceSpec: what the last step called and returned
    membership,        \* RemovalSpec: the rings built before and after an endpoint is removed
    frame,             \* StepSpec: the locals of a Pick that runs statement by statement
    policy             \* LifetimeSpec: the reference count of the policy and who holds it

vars ==
    <<subchannel_list_, shutdown_, published, pending, last, connectable, ring_, pick,
      remembered, built, generation, orphaned, pickers, attempters, refs, notified,
      calls, membership, frame, policy>>

\* The pickers, attempters and references of RaceSpec.
race_vars == <<generation, orphaned, pickers, attempters, refs, notified, calls>>

\* What the control plane and a single Pick leave alone.
data_vars == <<remembered, built, membership, frame, policy, race_vars>>

----------------------------------------------------------------------------
(* Bounds of the model *)

\* Longest address list handed to UpdateLocked.
MaxAddresses == 3

\* How many times a callback may repeat IDLE on a subchannel already counted IDLE
\* (each repeat adds one to num_idle_, so the repeats are capped).
MaxIdleRepeats == 2

\* Longest ring of a picker under test.
MaxRing == 5

\* Number of distinct subchannels the ring of a picker under test may reference.
MaxSubchannels == 4

\* Longest request_ring_hash call attribute, in characters.
MaxAttribute == 2

\* Most subchannels of a list the ring builder is run on.
MaxEndpoints == 3

\* Largest weight of an address.
MaxWeight == 5

\* Largest max_ring_size of a config (8388608 in the factory).
MaxRingSize == 7

\* Most subchannel lists of a RaceSpec behaviour.
MaxGenerations == 2

\* Longest address list of a RaceSpec update.
MaxListSize == 2

\* Most Pickers alive at a time in RaceSpec.
MaxPickers == 2

\* Most watcher notifications a subchannel list of RaceSpec receives.
MaxNotifications == 1

\* Most SubchannelConnectionAttempters alive at a time in RaceSpec.
MaxAttempters == 1

\* Longest address list of a LifetimeSpec update.
MaxLifetimeAddresses == 2

\* Most subchannel lists of LifetimeSpec that were replaced and not yet
\* destroyed when an update replaces one more.
MaxOrphanedLists == 1

\* Largest weight of an address of RemovalSpec.
MaxRemovalWeight == 2

\* Largest min_ring_size of a config of RemovalSpec.
MaxRemovalMinRingSize == 3

\* Largest hash value: hashes and request hashes range over 0..MaxHash, which
\* stands for 0..2^64-1 (Pick only compares hashes, it never adds them).
MaxHash == 5

----------------------------------------------------------------------------
(* grpc_connectivity_state, without SHUTDOWN *)

IDLE == "IDLE"
CONNECTING == "CONNECTING"
READY == "READY"
TRANSIENT_FAILURE == "TRANSIENT_FAILURE"

ConnectivityStates == {IDLE, CONNECTING, READY, TRANSIENT_FAILURE}

NoList == [null |-> TRUE]

NoUpdate == [state |-> "none", status |-> "none", picker |-> "none"]

\* PickResult::subchannel when it is null.
NoSubchannel == -1

\* No Pick has run on the picker under test.
NoPick ==
    [done |-> FALSE, hash |-> <<>>, parsed |-> FALSE, h |-> 0, first_index |-> 0,
     walked |-> FALSE, type |-> "none", subchannel |-> NoSubchannel, status |-> "none",
     attempts |-> <<>>]

\* The ring builder has not run.
NoRing == [done |-> FALSE]

\* The policy the factory created: the reference of its owner, and no
\* subchannel list, picker or attempter that holds another.  destroyed is
\* whether ~RingHash ran, asserted whether its GPR_ASSERT held.
NewPolicy ==
    [refs |-> 1, owned |-> TRUE, orphaned_lists |-> 0, ring_pickers |-> 0,
     queue_pickers |-> 0, attempters |-> 0, destroyed |-> FALSE, asserted |-> TRUE]

\* No Pick of StepSpec has been called.
NoFrame == [pc |-> "none"]

\* No ring of RemovalSpec has been built.
NoMembership == [stage |-> "none"]

\* A slot that holds no Picker.
NoPicker == [live |-> FALSE]

\* No step of RaceSpec has run: op is the step, stale whether it was a callback
\* of a list that is not current, updates its UpdateState calls, collected the
\* subchannels of the attempter it created or ran, attempts its AttemptToConnect
\* calls, returned the subchannel of its PickResult, dangling whether a
\* subchannel it used had no reference.
NoCalls ==
    [op |-> "none", stale |-> FALSE, updates |-> 0, collected |-> <<>>, attempts |-> <<>>,
     returned |-> NoSubchannel, dangling |-> FALSE]

\* An address of UpdateArgs: its weight attribute may be absent.
Addresses == [has_weight : BOOLEAN, weight : 0..1] \ {[has_weight |-> FALSE, weight |-> 1]}

AddressLists == UNION {[1..k -> Addresses] : k \in 0..MaxAddresses}

----------------------------------------------------------------------------
(* RingHashSubchannelList and RingHashSubchannelData *)

\* A new RingHashSubchannelData: last_connectivity_state_ = IDLE, latch clear.
NewSubchannelData == [last_connectivity_state_ |-> IDLE, seen_failure_since_ready_ |-> FALSE]

\* A new list of n subchannels, every counter 0.
NewSubchannelList(n) ==
    [null |-> FALSE,
     sd |-> [i \in 0..(n - 1) |-> NewSubchannelData],
     num_idle_ |-> 0, num_ready_ |-> 0, num_connecting_ |-> 0, num_transient_failure_ |-> 0]

num_subchannels(l) == Cardinality(DOMAIN l.sd)

\* Mutant: num_idle_ is decremented for IDLE to IDLE as well.
DecrementOldIdleToIdle(l, old_state, new_state) ==
    IF old_state = IDLE THEN [l EXCEPT !.num_idle_ = @ - 1]
    ELSE IF old_state = READY THEN [l EXCEPT !.num_ready_ = @ - 1]
    ELSE IF old_state = CONNECTING THEN [l EXCEPT !.num_connecting_ = @ - 1]
    ELSE IF old_state = TRANSIENT_FAILURE THEN [l EXCEPT !.num_transient_failure_ = @ - 1]
    ELSE l

\* The decrement half of UpdateStateCountersLocked.
DecrementOld(l, old_state, new_state) ==
    IF old_state = IDLE
    THEN IF new_state # IDLE THEN [l EXCEPT !.num_idle_ = @ - 1] ELSE l
    ELSE IF old_state = READY THEN [l EXCEPT !.num_ready_ = @ - 1]
    ELSE IF old_state = CONNECTING THEN [l EXCEPT !.num_connecting_ = @ - 1]
    ELSE IF old_state = TRANSIENT_FAILURE THEN [l EXCEPT !.num_transient_failure_ = @ - 1]
    ELSE l

\* The increment half of UpdateStateCountersLocked.
IncrementNew(l, new_state) ==
    IF new_state = IDLE THEN [l EXCEPT !.num_idle_ = @ + 1]
    ELSE IF new_state = READY THEN [l EXCEPT !.num_ready_ = @ + 1]
    ELSE IF new_state = CONNECTING THEN [l EXCEPT !.num_connecting_ = @ + 1]
    ELSE IF new_state = TRANSIENT_FAILURE THEN [l EXCEPT !.num_transient_failure_ = @ + 1]
    ELSE l

UpdateStateCountersLocked(l, old_state, new_state) ==
    IncrementNew(DecrementOld(l, old_state, new_state), new_state)

\* RingHashSubchannelData::UpdateConnectivityStateLocked on subchannel i of list l.
UpdateConnectivityStateLocked(l, i, connectivity_state) ==
    LET d == l.sd[i]
        counted ==
            IF ~d.seen_failure_since_ready_
            THEN UpdateStateCountersLocked(l, d.last_connectivity_state_, connectivity_state)
            ELSE IF connectivity_state = READY
                 THEN UpdateStateCountersLocked(l, TRANSIENT_FAILURE, connectivity_state)
                 ELSE l
        latch ==
            IF ~d.seen_failure_since_ready_
            THEN connectivity_state = TRANSIENT_FAILURE
            ELSE connectivity_state # READY
    IN  [counted EXCEPT !.sd[i] = [last_connectivity_state_ |-> connectivity_state,
                                   seen_failure_since_ready_ |-> latch]]

\* Mutant: CONNECTING is reported whenever a subchannel is counted CONNECTING,
\* however many are counted in TRANSIENT_FAILURE.
UpdateRingHashNoFailureLimit(l) ==
    IF l.num_ready_ > 0
    THEN [reattempt |-> FALSE,
          update |-> [state |-> READY, status |-> "OK", picker |-> "Picker"]]
    ELSE IF l.num_connecting_ > 0
    THEN [reattempt |-> FALSE,
          update |-> [state |-> CONNECTING, status |-> "OK", picker |-> "QueuePicker"]]
    ELSE IF l.num_idle_ > 0 /\ l.num_transient_failure_ < 2
    THEN [reattempt |-> TRUE,
          update |-> [state |-> IDLE, status |-> "OK", picker |-> "QueuePicker"]]
    ELSE [reattempt |-> TRUE,
          update |-> [state |-> TRANSIENT_FAILURE, status |-> "UNAVAILABLE",
                      picker |-> "TransientFailurePicker"]]

\* Mutant: a re-attempt is asked for in READY too.
UpdateRingHashReattemptWhenReady(l) ==
    IF l.num_ready_ > 0
    THEN [reattempt |-> TRUE,
          update |-> [state |-> READY, status |-> "OK", picker |-> "Picker"]]
    ELSE IF l.num_connecting_ > 0 /\ l.num_transient_failure_ < 2
    THEN [reattempt |-> FALSE,
          update |-> [state |-> CONNECTING, status |-> "OK", picker |-> "QueuePicker"]]
    ELSE IF l.num_idle_ > 0 /\ l.num_transient_failure_ < 2
    THEN [reattempt |-> TRUE,
          update |-> [state |-> IDLE, status |-> "OK", picker |-> "QueuePicker"]]
    ELSE [reattempt |-> TRUE,
          update |-> [state |-> TRANSIENT_FAILURE, status |-> "UNAVAILABLE",
                      picker |-> "TransientFailurePicker"]]

\* The UpdateState call of UpdateRingHashConnectivityStateLocked and its return
\* value, for the current subchannel list l.
UpdateRingHashConnectivityStateLocked(l) ==
    IF l.num_ready_ > 0
    THEN [reattempt |-> FALSE,
          update |-> [state |-> READY, status |-> "OK", picker |-> "Picker"]]
    ELSE IF l.num_connecting_ > 0 /\ l.num_transient_failure_ < 2
    THEN [reattempt |-> FALSE,
          update |-> [state |-> CONNECTING, status |-> "OK", picker |-> "QueuePicker"]]
    ELSE IF l.num_idle_ > 0 /\ l.num_transient_failure_ < 2
    THEN [reattempt |-> TRUE,
          update |-> [state |-> IDLE, status |-> "OK", picker |-> "QueuePicker"]]
    ELSE [reattempt |-> TRUE,
          update |-> [state |-> TRANSIENT_FAILURE, status |-> "UNAVAILABLE",
                      picker |-> "TransientFailurePicker"]]

\* Mutant: StartWatchingLocked records no state.
StartWatchingNothing(l, k) == l

\* The loop of StartWatchingLocked: UpdateConnectivityStateLocked(IDLE) on
\* subchannels 0..k-1 in order.
RECURSIVE StartWatchingLoop(_, _)
StartWatchingLoop(l, k) ==
    IF k = 0 THEN l
    ELSE UpdateConnectivityStateLocked(StartWatchingLoop(l, k - 1), k - 1, IDLE)

\* Mutant: no address is dropped.
FilterNothing(addresses) == addresses

\* The weight filter of UpdateLocked: the addresses kept, in input order.
RECURSIVE FilterAddresses(_)
FilterAddresses(addresses) ==
    IF addresses = <<>> THEN <<>>
    ELSE LET address == Head(addresses)
             rest == FilterAddresses(Tail(addresses))
         IN  IF ~address.has_weight \/ address.weight > 0
             THEN <<address>> \o rest
             ELSE rest

\* The index ProcessConnectivityChangeLocked reconnects after a failure of i.
next_index(l, i) == (i + 1) % num_subchannels(l)

----------------------------------------------------------------------------
(* The policy's entry points, on the control-plane WorkSerializer *)

\* RingHash::UpdateLocked with StartWatchingLocked.  The channel delivers no
\* update to a policy it has shut down.  The subchannels are new: the caller
\* says what becomes of pending and connectable.  last keeps args.addresses.
UpdateLocked(addresses) ==
    LET kept == FilterAddresses(addresses)
        l == StartWatchingLoop(NewSubchannelList(Len(kept)), Len(kept))
        update ==
            IF Len(kept) = 0
            THEN [state |-> TRANSIENT_FAILURE, status |-> "UNAVAILABLE",
                  picker |-> "TransientFailurePicker"]
            ELSE [state |-> READY, status |-> "OK", picker |-> "Picker"]
    IN  /\ ~shutdown_
        /\ subchannel_list_' = l
        /\ published' = update
        /\ last' = [op |-> "UpdateLocked", index |-> 0, state |-> IDLE,
                    updates |-> <<update>>, attempts |-> <<>>, reresolutions |-> 0,
                    addresses |-> addresses]
        /\ UNCHANGED <<shutdown_, ring_, pick>>

\* Mutant: every callback requests re-resolution.
RequestReresolutionAlways(connectivity_state) == 1

\* The RequestReresolution calls of ProcessConnectivityChangeLocked.
RequestReresolution(connectivity_state) ==
    IF connectivity_state = TRANSIENT_FAILURE THEN 1 ELSE 0

\* A callback that repeats IDLE on a subchannel counted IDLE adds to num_idle_
\* without bound: the model delivers at most MaxIdleRepeats of them per list.
RepeatAllowed(l, i, connectivity_state) ==
    (/\ connectivity_state = IDLE
     /\ l.sd[i].last_connectivity_state_ = IDLE
     /\ ~l.sd[i].seen_failure_since_ready_)
    => l.num_idle_ + l.num_ready_ + l.num_connecting_ + l.num_transient_failure_
         < num_subchannels(l) + MaxIdleRepeats

\* RingHashSubchannelData::ProcessConnectivityChangeLocked for subchannel i of
\* the current list.  Its calls of RequestReresolution, UpdateState and
\* AttemptToConnect are recorded in last; what the subchannels make of
\* AttemptToConnect is the caller's.
ProcessConnectivityChangeLocked(i, connectivity_state) ==
    /\ subchannel_list_ # NoList
    /\ i \in DOMAIN subchannel_list_.sd
    /\ RepeatAllowed(subchannel_list_, i, connectivity_state)
    /\ LET l == UpdateConnectivityStateLocked(subchannel_list_, i, connectivity_state)
           agg == UpdateRingHashConnectivityStateLocked(l)
           attempts ==
               IF agg.reattempt /\ connectivity_state = TRANSIENT_FAILURE
               THEN <<next_index(l, i)>>
               ELSE <<>>
       IN  /\ subchannel_list_' = l
           /\ published' = agg.update
           /\ last' = [op |-> "ProcessConnectivityChangeLocked", index |-> i,
                       state |-> connectivity_state,
                       updates |-> <<agg.update>>, attempts |-> attempts,
                       reresolutions |-> RequestReresolution(connectivity_state)]
    /\ UNCHANGED <<shutdown_, ring_, pick>>

\* The task SubchannelConnectionAttempter::RunInExecCtx runs on the work
\* serializer, for the subchannels a Pick of the published ring picker collected.
RunInExecCtx(subchannels) ==
    /\ subchannel_list_ # NoList
    /\ published.picker = "Picker"
    /\ subchannels # {}
    /\ subchannels \subseteq DOMAIN subchannel_list_.sd
    /\ pending' = IF ~shutdown_ THEN pending \cup subchannels ELSE pending
    /\ UNCHANGED <<subchannel_list_, shutdown_, published, last, connectable, ring_, pick>>

\* RingHash::ShutdownLocked.
ShutdownLocked ==
    /\ ~shutdown_
    /\ shutdown_' = TRUE
    /\ subchannel_list_' = NoList
    /\ last' = [op |-> "ShutdownLocked", index |-> 0, state |-> IDLE,
                updates |-> <<>>, attempts |-> <<>>, reresolutions |-> 0]
    /\ UNCHANGED <<published, pending, connectable, ring_, pick>>

----------------------------------------------------------------------------
(* Spec: the control plane, every callback sequence *)

Init ==
    /\ subchannel_list_ = NoList
    /\ shutdown_ = FALSE
    /\ published = NoUpdate
    /\ pending = {}
    /\ last = [op |-> "RingHash", index |-> 0, state |-> IDLE,
               updates |-> <<>>, attempts |-> <<>>, reresolutions |-> 0]
    /\ connectable = <<>>
    /\ ring_ = <<>>
    /\ pick = NoPick
    /\ remembered = NoPick
    /\ membership = NoMembership
    /\ frame = NoFrame
    /\ policy = NewPolicy
    /\ built = NoRing
    /\ generation = 0
    /\ orphaned = <<>>
    /\ pickers = [slot \in 1..MaxPickers |-> NoPicker]
    /\ attempters = <<>>
    /\ refs = <<>>
    /\ notified = <<>>
    /\ calls = NoCalls

\* In Spec the subchannels are left open: any state may be reported at any
\* time, whatever was asked of them.
Update ==
    \E addresses \in AddressLists :
        UpdateLocked(addresses) /\ UNCHANGED <<pending, connectable>> /\ UNCHANGED data_vars

Callback ==
    \E i \in 0..(MaxAddresses - 1), s \in ConnectivityStates :
        ProcessConnectivityChangeLocked(i, s) /\ UNCHANGED <<pending, connectable>>
            /\ UNCHANGED data_vars

Shutdown == ShutdownLocked /\ UNCHANGED data_vars

Next == Update \/ Callback \/ Shutdown

Spec == Init /\ [][Next]_vars

----------------------------------------------------------------------------
(* LiveSpec: subchannels that answer connection attempts *)

\* The subchannels named by AttemptToConnect calls.
Attempted(attempts) == {attempts[k] : k \in DOMAIN attempts}

\* A watcher notification for subchannel i: the callback runs, the request
\* pending on i is answered, and the subchannels the callback called
\* AttemptToConnect on have a request pending.
Notify(i, connectivity_state) ==
    /\ ProcessConnectivityChangeLocked(i, connectivity_state)
    /\ pending' = (pending \ {i}) \cup Attempted(last'.attempts)
    /\ UNCHANGED connectable
    /\ UNCHANGED data_vars

Watched(i) == subchannel_list_ # NoList /\ i \in DOMAIN subchannel_list_.sd

\* A subchannel that is idle or backing off starts connecting once
\* AttemptToConnect was called on it.
WatcherConnecting(i) ==
    /\ Watched(i)
    /\ i \in pending
    /\ subchannel_list_.sd[i].last_connectivity_state_ \in {IDLE, TRANSIENT_FAILURE}
    /\ Notify(i, CONNECTING)

\* A connection attempt ends: READY when the backend accepts, else
\* TRANSIENT_FAILURE.
WatcherResult(i) ==
    /\ Watched(i)
    /\ subchannel_list_.sd[i].last_connectivity_state_ = CONNECTING
    /\ Notify(i, IF connectable[i] THEN READY ELSE TRANSIENT_FAILURE)

\* An established connection is lost: the subchannel goes back to IDLE.
WatcherDrop(i) ==
    /\ Watched(i)
    /\ subchannel_list_.sd[i].last_connectivity_state_ = READY
    /\ Notify(i, IDLE)

\* The one update of a LiveSpec behaviour; each backend accepts connections
\* or does not.
LiveUpdate ==
    /\ subchannel_list_ = NoList
    /\ \E addresses \in AddressLists :
           /\ UpdateLocked(addresses)
           /\ pending' = {}
           /\ connectable' \in [DOMAIN subchannel_list_'.sd -> BOOLEAN]
           /\ UNCHANGED data_vars

\* Picks reach the ring picker only while it is the published picker; the
\* attempter's task then calls AttemptToConnect on what a Pick collected.
LiveAttempter ==
    \E subchannels \in SUBSET (0..(MaxAddresses - 1)) :
        RunInExecCtx(subchannels) /\ UNCHANGED data_vars

LiveConnecting == \E i \in 0..(MaxAddresses - 1) : WatcherConnecting(i)

LiveResult == \E i \in 0..(MaxAddresses - 1) : WatcherResult(i)

LiveDrop == \E i \in 0..(MaxAddresses - 1) : WatcherDrop(i)

LiveNext == LiveUpdate \/ LiveAttempter \/ LiveConnecting \/ LiveResult \/ LiveDrop

\* Every requested attempt eventually produces its callbacks.
LiveFairness ==
    \A i \in 0..(MaxAddresses - 1) :
        WF_vars(WatcherConnecting(i)) /\ WF_vars(WatcherResult(i))

LiveSpec == Init /\ [][LiveNext]_vars /\ LiveFairness

----------------------------------------------------------------------------
(* RingHash::Picker::Pick *)

\* ring_[index], with the vector's indices 0..size-1.
At(ring, index) == ring[index + 1]

\* Division of int64_t by 2, which truncates toward zero.
Half(x) == IF x >= 0 THEN x \div 2 ELSE -((-x) \div 2)

\* The while (true) loop of Pick from the values lowp and highp have when an
\* iteration starts; its value is first_index at the loop's exit.
RECURSIVE KetamaLoop(_, _, _, _)
KetamaLoop(ring, h, lowp, highp) ==
    LET first_index == Half(lowp + highp)
    IN  IF first_index = Len(ring) THEN 0
        ELSE LET midval == At(ring, first_index).hash
                 midval1 == IF first_index = 0 THEN 0 ELSE At(ring, first_index - 1).hash
             IN  IF h <= midval /\ h > midval1 THEN first_index
                 ELSE LET lowp2 == IF midval < h THEN first_index + 1 ELSE lowp
                          highp2 == IF midval < h THEN highp ELSE first_index - 1
                      IN  IF lowp2 > highp2 THEN 0
                          ELSE KetamaLoop(ring, h, lowp2, highp2)

\* Mutant: the loop stops at the first entry it probes whose hash is at least
\* h, without comparing h with the entry before it.
RECURSIVE KetamaLoopNoLowerTest(_, _, _, _)
KetamaLoopNoLowerTest(ring, h, lowp, highp) ==
    LET first_index == Half(lowp + highp)
    IN  IF first_index = Len(ring) THEN 0
        ELSE LET midval == At(ring, first_index).hash
             IN  IF h <= midval THEN first_index
                 ELSE IF first_index + 1 > highp THEN 0
                 ELSE KetamaLoopNoLowerTest(ring, h, first_index + 1, highp)

FirstIndexNoLowerTest(ring, h) == KetamaLoopNoLowerTest(ring, h, 0, Len(ring))

\* first_index as Pick computes it: lowp = 0, highp = ring_.size().
FirstIndex(ring, h) == KetamaLoop(ring, h, 0, Len(ring))

\* Mutant: an IDLE entry queues the pick without asking for a connection.
ConnectAndPickHelperIdleNoAttempt(entry) ==
    IF entry.connectivity_state = READY
    THEN [attempt_to_connect |-> FALSE, type |-> "PICK_COMPLETE",
          subchannel |-> entry.subchannel]
    ELSE IF entry.connectivity_state \in {IDLE, CONNECTING}
    THEN [attempt_to_connect |-> FALSE, type |-> "PICK_QUEUE", subchannel |-> NoSubchannel]
    ELSE [attempt_to_connect |-> TRUE, type |-> "PICK_FAILED", subchannel |-> NoSubchannel]

\* Mutant: an IDLE entry queues the pick and leaves its subchannel in the
\* result.
ConnectAndPickHelperQueueWithSubchannel(entry) ==
    IF entry.connectivity_state = READY
    THEN [attempt_to_connect |-> FALSE, type |-> "PICK_COMPLETE",
          subchannel |-> entry.subchannel]
    ELSE IF entry.connectivity_state = IDLE
    THEN [attempt_to_connect |-> TRUE, type |-> "PICK_QUEUE",
          subchannel |-> entry.subchannel]
    ELSE IF entry.connectivity_state = CONNECTING
    THEN [attempt_to_connect |-> FALSE, type |-> "PICK_QUEUE", subchannel |-> NoSubchannel]
    ELSE [attempt_to_connect |-> TRUE, type |-> "PICK_FAILED", subchannel |-> NoSubchannel]

\* ConnectAndPickHelper on a PickResult initialised to PICK_FAILED: its return
\* value and what it leaves in the result.
ConnectAndPickHelper(entry) ==
    IF entry.connectivity_state = READY
    THEN [attempt_to_connect |-> FALSE, type |-> "PICK_COMPLETE",
          subchannel |-> entry.subchannel]
    ELSE IF entry.connectivity_state = IDLE
    THEN [attempt_to_connect |-> TRUE, type |-> "PICK_QUEUE", subchannel |-> NoSubchannel]
    ELSE IF entry.connectivity_state = CONNECTING
    THEN [attempt_to_connect |-> FALSE, type |-> "PICK_QUEUE", subchannel |-> NoSubchannel]
    ELSE [attempt_to_connect |-> TRUE, type |-> "PICK_FAILED", subchannel |-> NoSubchannel]

\* Mutant: the loop stops one position early (i < ring_.size() - 1).
RECURSIVE WalkLoopOneShort(_, _, _, _, _, _)
WalkLoopOneShort(ring, first_index, i, found_second_subchannel, found_first_non_failed, attempts) ==
    IF ~(i < Len(ring) - 1)
    THEN [type |-> "PICK_FAILED", subchannel |-> NoSubchannel, status |-> "INTERNAL",
          attempts |-> attempts]
    ELSE LET entry == At(ring, (first_index + i) % Len(ring))
             first_channel == At(ring, first_index).subchannel
         IN  IF entry.subchannel = first_channel
             THEN WalkLoopOneShort(ring, first_index, i + 1, found_second_subchannel,
                           found_first_non_failed, attempts)
             ELSE IF entry.connectivity_state = READY
             THEN [type |-> "PICK_COMPLETE", subchannel |-> entry.subchannel,
                   status |-> "OK", attempts |-> attempts]
             ELSE IF entry.connectivity_state = CONNECTING /\ ~found_second_subchannel
             THEN [type |-> "PICK_QUEUE", subchannel |-> NoSubchannel,
                   status |-> "OK", attempts |-> attempts]
             ELSE IF ~found_first_non_failed
             THEN IF entry.connectivity_state = TRANSIENT_FAILURE
                  THEN WalkLoopOneShort(ring, first_index, i + 1, TRUE, FALSE,
                                Append(attempts, entry.subchannel))
                  ELSE WalkLoopOneShort(ring, first_index, i + 1, TRUE, TRUE,
                                IF entry.connectivity_state = IDLE
                                THEN Append(attempts, entry.subchannel)
                                ELSE attempts)
             ELSE WalkLoopOneShort(ring, first_index, i + 1, TRUE, found_first_non_failed, attempts)

\* Mutant: every CONNECTING entry the loop visits queues the pick.
RECURSIVE WalkLoopQueuesOnAnyConnecting(_, _, _, _, _, _)
WalkLoopQueuesOnAnyConnecting(ring, first_index, i, found_second_subchannel, found_first_non_failed, attempts) ==
    IF ~(i < Len(ring))
    THEN [type |-> "PICK_FAILED", subchannel |-> NoSubchannel, status |-> "INTERNAL",
          attempts |-> attempts]
    ELSE LET entry == At(ring, (first_index + i) % Len(ring))
             first_channel == At(ring, first_index).subchannel
         IN  IF entry.subchannel = first_channel
             THEN WalkLoopQueuesOnAnyConnecting(ring, first_index, i + 1, found_second_subchannel,
                           found_first_non_failed, attempts)
             ELSE IF entry.connectivity_state = READY
             THEN [type |-> "PICK_COMPLETE", subchannel |-> entry.subchannel,
                   status |-> "OK", attempts |-> attempts]
             ELSE IF entry.connectivity_state = CONNECTING
             THEN [type |-> "PICK_QUEUE", subchannel |-> NoSubchannel,
                   status |-> "OK", attempts |-> attempts]
             ELSE IF ~found_first_non_failed
             THEN IF entry.connectivity_state = TRANSIENT_FAILURE
                  THEN WalkLoopQueuesOnAnyConnecting(ring, first_index, i + 1, TRUE, FALSE,
                                Append(attempts, entry.subchannel))
                  ELSE WalkLoopQueuesOnAnyConnecting(ring, first_index, i + 1, TRUE, TRUE,
                                IF entry.connectivity_state = IDLE
                                THEN Append(attempts, entry.subchannel)
                                ELSE attempts)
             ELSE WalkLoopQueuesOnAnyConnecting(ring, first_index, i + 1, TRUE, found_first_non_failed, attempts)

\* Mutant: the loop goes on collecting attempts after the first non-failed
\* entry.
RECURSIVE WalkLoopCollectsAfterNonFailed(_, _, _, _, _, _)
WalkLoopCollectsAfterNonFailed(ring, first_index, i, found_second_subchannel, found_first_non_failed, attempts) ==
    IF ~(i < Len(ring))
    THEN [type |-> "PICK_FAILED", subchannel |-> NoSubchannel, status |-> "INTERNAL",
          attempts |-> attempts]
    ELSE LET entry == At(ring, (first_index + i) % Len(ring))
             first_channel == At(ring, first_index).subchannel
         IN  IF entry.subchannel = first_channel
             THEN WalkLoopCollectsAfterNonFailed(ring, first_index, i + 1, found_second_subchannel,
                           found_first_non_failed, attempts)
             ELSE IF entry.connectivity_state = READY
             THEN [type |-> "PICK_COMPLETE", subchannel |-> entry.subchannel,
                   status |-> "OK", attempts |-> attempts]
             ELSE IF entry.connectivity_state = CONNECTING /\ ~found_second_subchannel
             THEN [type |-> "PICK_QUEUE", subchannel |-> NoSubchannel,
                   status |-> "OK", attempts |-> attempts]
             ELSE IF ~found_first_non_failed \/ found_second_subchannel
             THEN IF entry.connectivity_state = TRANSIENT_FAILURE
                  THEN WalkLoopCollectsAfterNonFailed(ring, first_index, i + 1, TRUE, FALSE,
                                Append(attempts, entry.subchannel))
                  ELSE WalkLoopCollectsAfterNonFailed(ring, first_index, i + 1, TRUE, TRUE,
                                IF entry.connectivity_state = IDLE
                                THEN Append(attempts, entry.subchannel)
                                ELSE attempts)
             ELSE WalkLoopCollectsAfterNonFailed(ring, first_index, i + 1, TRUE, found_first_non_failed, attempts)

\* Mutant: the loop does not skip the entries of the chosen entry's
\* subchannel.
RECURSIVE WalkLoopSkipsNothing(_, _, _, _, _, _)
WalkLoopSkipsNothing(ring, first_index, i, found_second_subchannel, found_first_non_failed, attempts) ==
    IF ~(i < Len(ring))
    THEN [type |-> "PICK_FAILED", subchannel |-> NoSubchannel, status |-> "INTERNAL",
          attempts |-> attempts]
    ELSE LET entry == At(ring, (first_index + i) % Len(ring))
             first_channel == At(ring, first_index).subchannel
         IN  IF entry.subchannel = NoSubchannel
             THEN WalkLoopSkipsNothing(ring, first_index, i + 1, found_second_subchannel,
                           found_first_non_failed, attempts)
             ELSE IF entry.connectivity_state = READY
             THEN [type |-> "PICK_COMPLETE", subchannel |-> entry.subchannel,
                   status |-> "OK", attempts |-> attempts]
             ELSE IF entry.connectivity_state = CONNECTING /\ ~found_second_subchannel
             THEN [type |-> "PICK_QUEUE", subchannel |-> NoSubchannel,
                   status |-> "OK", attempts |-> attempts]
             ELSE IF ~found_first_non_failed
             THEN IF entry.connectivity_state = TRANSIENT_FAILURE
                  THEN WalkLoopSkipsNothing(ring, first_index, i + 1, TRUE, FALSE,
                                Append(attempts, entry.subchannel))
                  ELSE WalkLoopSkipsNothing(ring, first_index, i + 1, TRUE, TRUE,
                                IF entry.connectivity_state = IDLE
                                THEN Append(attempts, entry.subchannel)
                                ELSE attempts)
             ELSE WalkLoopSkipsNothing(ring, first_index, i + 1, TRUE, found_first_non_failed, attempts)

\* The for loop of Pick from iteration i on: attempts are the subchannels
\* handed to ScheduleSubchannelConnectionAttempt so far, in order.  Its value
\* is what Pick returns.
RECURSIVE WalkLoop(_, _, _, _, _, _)
WalkLoop(ring, first_index, i, found_second_subchannel, found_first_non_failed, attempts) ==
    IF ~(i < Len(ring))
    THEN [type |-> "PICK_FAILED", subchannel |-> NoSubchannel, status |-> "INTERNAL",
          attempts |-> attempts]
    ELSE LET entry == At(ring, (first_index + i) % Len(ring))
             first_channel == At(ring, first_index).subchannel
         IN  IF entry.subchannel = first_channel
             THEN WalkLoop(ring, first_index, i + 1, found_second_subchannel,
                           found_first_non_failed, attempts)
             ELSE IF entry.connectivity_state = READY
             THEN [type |-> "PICK_COMPLETE", subchannel |-> entry.subchannel,
                   status |-> "OK", attempts |-> attempts]
             ELSE IF entry.connectivity_state = CONNECTING /\ ~found_second_subchannel
             THEN [type |-> "PICK_QUEUE", subchannel |-> NoSubchannel,
                   status |-> "OK", attempts |-> attempts]
             ELSE IF ~found_first_non_failed
             THEN IF entry.connectivity_state = TRANSIENT_FAILURE
                  THEN WalkLoop(ring, first_index, i + 1, TRUE, FALSE,
                                Append(attempts, entry.subchannel))
                  ELSE WalkLoop(ring, first_index, i + 1, TRUE, TRUE,
                                IF entry.connectivity_state = IDLE
                                THEN Append(attempts, entry.subchannel)
                                ELSE attempts)
             ELSE WalkLoop(ring, first_index, i + 1, TRUE, found_first_non_failed, attempts)

\* Mutant: the walk starts one entry further after every Pick, as a
\* round-robin picker would.
PickRotating(ring, h) ==
    LET first_index == (FirstIndex(ring, h) + (IF pick.done THEN pick.first_index + 1 ELSE 0))
                           % Len(ring)
        entry == At(ring, first_index)
        helper == ConnectAndPickHelper(entry)
        attempts == IF helper.attempt_to_connect THEN <<entry.subchannel>> ELSE <<>>
    IN  IF helper.type # "PICK_FAILED"
        THEN [done |-> TRUE, h |-> h, first_index |-> first_index, walked |-> FALSE,
              type |-> helper.type, subchannel |-> helper.subchannel, status |-> "OK",
              attempts |-> attempts]
        ELSE LET walk == WalkLoop(ring, first_index, 1, FALSE, FALSE, attempts)
             IN  [done |-> TRUE, h |-> h, first_index |-> first_index, walked |-> TRUE,
                  type |-> walk.type, subchannel |-> walk.subchannel,
                  status |-> walk.status, attempts |-> walk.attempts]

\* Pick for a request hash h that parsed: the PickResult, the subchannels
\* collected in the SubchannelConnectionAttempter, and whether the fallback
\* loop was entered.
Pick(ring, h) ==
    LET first_index == FirstIndex(ring, h)
        entry == At(ring, first_index)
        helper == ConnectAndPickHelper(entry)
        attempts == IF helper.attempt_to_connect THEN <<entry.subchannel>> ELSE <<>>
    IN  IF helper.type # "PICK_FAILED"
        THEN [done |-> TRUE, h |-> h, first_index |-> first_index, walked |-> FALSE,
              type |-> helper.type, subchannel |-> helper.subchannel, status |-> "OK",
              attempts |-> attempts]
        ELSE LET walk == WalkLoop(ring, first_index, 1, FALSE, FALSE, attempts)
             IN  [done |-> TRUE, h |-> h, first_index |-> first_index, walked |-> TRUE,
                  type |-> walk.type, subchannel |-> walk.subchannel,
                  status |-> walk.status, attempts |-> walk.attempts]

\* The largest uint64_t: the hashes 0..MaxHash stand for 0..2^64-1.
Uint64Max == MaxHash

\* The decimal digits, as characters.
Digits == <<"0", "1", "2", "3", "4", "5", "6", "7", "8", "9">>

IsDigit(c) == \E d \in DOMAIN Digits : Digits[d] = c

DigitValue(c) == (CHOOSE d \in DOMAIN Digits : Digits[d] = c) - 1

\* The characters of the model's call attributes: digits, signs, a space and
\* a letter.
AttributeChars == {"0", "1", "2", "9", "+", "-", " ", "x"}

\* The values of the request_ring_hash call attribute; <<>> is also what
\* ExperimentalGetCallAttribute returns when the attribute is missing.
Attributes == UNION {[1..k -> AttributeChars] : k \in 0..MaxAttribute}

\* s without its leading spaces.
RECURSIVE StripLeading(_)
StripLeading(s) ==
    IF s # <<>> /\ Head(s) = " " THEN StripLeading(Tail(s)) ELSE s

\* s without its trailing spaces.
RECURSIVE StripTrailing(_)
StripTrailing(s) ==
    IF s # <<>> /\ s[Len(s)] = " " THEN StripTrailing(SubSeq(s, 1, Len(s) - 1)) ELSE s

\* The digit loop of the parse: result so far, digits left.  A character that
\* is no digit and a value above Uint64Max both fail.
RECURSIVE ParseDigits(_, _)
ParseDigits(s, result) ==
    IF s = <<>> THEN [ok |-> TRUE, value |-> result]
    ELSE IF ~IsDigit(Head(s)) THEN [ok |-> FALSE, value |-> result]
    ELSE IF result > Uint64Max \div 10 THEN [ok |-> FALSE, value |-> Uint64Max]
    ELSE IF result * 10 > Uint64Max - DigitValue(Head(s))
         THEN [ok |-> FALSE, value |-> Uint64Max]
    ELSE ParseDigits(Tail(s), result * 10 + DigitValue(Head(s)))

\* absl::SimpleAtoi into a uint64_t: spaces around the number are skipped, one
\* sign is read, a negative number fails, the rest must be decimal digits of a
\* value that fits.
SimpleAtoi(hash) ==
    LET text == StripTrailing(StripLeading(hash))
        signed == text # <<>> /\ Head(text) \in {"+", "-"}
        digits == IF signed THEN Tail(text) ELSE text
    IN  IF digits = <<>> THEN [ok |-> FALSE, value |-> 0]
        ELSE IF signed /\ Head(text) = "-" THEN [ok |-> FALSE, value |-> 0]
        ELSE ParseDigits(digits, 0)

\* Mutant: the result of the parse is not tested, the lookup runs on whatever
\* value the parse left.
PickCallUntestedParse(ring, hash) ==
    LET parse == SimpleAtoi(hash)
        result == Pick(ring, parse.value)
    IN  [done |-> TRUE, hash |-> hash, parsed |-> TRUE, h |-> result.h,
         first_index |-> result.first_index, walked |-> result.walked,
         type |-> result.type, subchannel |-> result.subchannel,
         status |-> result.status, attempts |-> result.attempts]

\* Pick from its first line: the call attribute is parsed, a failed parse
\* returns PICK_FAILED with GRPC_STATUS_INTERNAL before anything else is read.
PickCall(ring, hash) ==
    LET parse == SimpleAtoi(hash)
        result == Pick(ring, parse.value)
    IN  IF ~parse.ok
        THEN [done |-> TRUE, hash |-> hash, parsed |-> FALSE, h |-> 0,
              first_index |-> 0, walked |-> FALSE, type |-> "PICK_FAILED",
              subchannel |-> NoSubchannel, status |-> "INTERNAL", attempts |-> <<>>]
        ELSE [done |-> TRUE, hash |-> hash, parsed |-> TRUE, h |-> result.h,
              first_index |-> result.first_index, walked |-> result.walked,
              type |-> result.type, subchannel |-> result.subchannel,
              status |-> result.status, attempts |-> result.attempts]

\* The decimal representation of h, as the caller writes the attribute.
RECURSIVE Decimal(_)
Decimal(h) ==
    IF h < 10 THEN <<Digits[h + 1]>> ELSE Decimal(h \div 10) \o <<Digits[(h % 10) + 1]>>

----------------------------------------------------------------------------
(* PickSpec: Pick on every small ring *)

Hashes == 0..MaxHash

\* The ring is sorted ascending by hash (std::sort at the end of the Picker
\* constructor); equal hashes are allowed.
SortedByHash(hashes) ==
    \A k \in DOMAIN hashes : \A j \in DOMAIN hashes : k < j => hashes[k] <= hashes[j]

\* Subchannels are references, compared only for equality: they are numbered
\* 0, 1, ... in the order in which they first appear on the ring.
NumberedByFirstUse(subs) ==
    \A k \in DOMAIN subs :
        \/ subs[k] = 0
        \/ \E j \in 1..(k - 1) : subs[j] = subs[k] - 1

\* A ring: every entry of a subchannel carries the state CheckConnectivityState
\* returned for that subchannel when the ring was built.
RingOf(hashes, subs, states) ==
    [k \in DOMAIN hashes |->
        [hash |-> hashes[k], subchannel |-> subs[k], connectivity_state |-> states[subs[k]]]]

\* Rings with every sorted sequence of hashes; the entries are one subchannel's.
\* The binary search reads the hashes and nothing else.
LookupRing(ring) ==
    \E n \in 1..MaxRing :
        \E hashes \in [1..n -> Hashes] :
            /\ SortedByHash(hashes)
            /\ \E state \in ConnectivityStates :
                   ring = RingOf(hashes, [k \in 1..n |-> 0], [c \in {0} |-> state])

\* Rings with every assignment of at most MaxSubchannels subchannels and of
\* their states; entry k has hash k, so that the request hashes 0..MaxHash lead
\* to every first_index and to the wrap.  What follows the binary search reads
\* first_index, the subchannels and the states, and no hash.
WalkRing(ring) ==
    \E n \in 1..MaxRing :
        \E subs \in [1..n -> 0..(MaxSubchannels - 1)] :
            /\ NumberedByFirstUse(subs)
            /\ \E states \in [0..(MaxSubchannels - 1) -> ConnectivityStates] :
                   /\ \A c \in 0..(MaxSubchannels - 1) :
                          (\A k \in 1..n : subs[k] # c) => states[c] = IDLE
                   /\ ring = RingOf([k \in 1..n |-> k], subs, states)

PickInit ==
    /\ subchannel_list_ = NoList
    /\ shutdown_ = FALSE
    /\ published = NoUpdate
    /\ pending = {}
    /\ last = [op |-> "RingHash", index |-> 0, state |-> IDLE,
               updates |-> <<>>, attempts |-> <<>>, reresolutions |-> 0]
    /\ connectable = <<>>
    /\ pick = NoPick
    /\ remembered = NoPick
    /\ membership = NoMembership
    /\ frame = NoFrame
    /\ policy = NewPolicy
    /\ built = NoRing
    /\ generation = 0
    /\ orphaned = <<>>
    /\ pickers = [slot \in 1..MaxPickers |-> NoPicker]
    /\ attempters = <<>>
    /\ refs = <<>>
    /\ notified = <<>>
    /\ calls = NoCalls
    /\ (LookupRing(ring_) \/ WalkRing(ring_))

\* One call of Pick; the ring is not written.
DoPick ==
    /\ \E h \in Hashes : pick' = PickCall(ring_, Decimal(h))
    /\ UNCHANGED <<subchannel_list_, shutdown_, published, pending, last, connectable, ring_>>
    /\ UNCHANGED data_vars

PickNext == DoPick

PickSpec == PickInit /\ [][PickNext]_vars

----------------------------------------------------------------------------
(* AttributeSpec: Pick on every short call attribute *)

\* The rings of at most two entries.
AttributeInit ==
    /\ PickInit
    /\ Len(ring_) <= 2

\* One call of Pick with any attribute value; the ring is not written.
DoPickAttribute ==
    /\ \E hash \in Attributes : pick' = PickCall(ring_, hash)
    /\ UNCHANGED <<subchannel_list_, shutdown_, published, pending, last, connectable, ring_>>
    /\ UNCHANGED data_vars

AttributeNext == DoPickAttribute

AttributeSpec == AttributeInit /\ [][AttributeNext]_vars

----------------------------------------------------------------------------
(* The ring builder of the Picker constructor *)

\* The doubles of the constructor are IEEE-754 binary64 numbers.  Their 53-bit
\* significands and the 106-bit products of two of them are natural numbers
\* kept as limbs in base 2^15, least significant limb first, without a
\* leading zero limb.
Base == 32768

RECURSIVE BigOf(_)
BigOf(k) == IF k = 0 THEN <<>> ELSE <<k % Base>> \o BigOf(k \div Base)

RECURSIVE BigToInt(_)
BigToInt(a) == IF a = <<>> THEN 0 ELSE Head(a) + Base * BigToInt(Tail(a))

RECURSIVE Trim(_)
Trim(a) == IF a # <<>> /\ a[Len(a)] = 0 THEN Trim(SubSeq(a, 1, Len(a) - 1)) ELSE a

RECURSIVE BigAdd(_, _, _)
BigAdd(a, b, carry) ==
    IF a = <<>> /\ b = <<>> THEN (IF carry = 0 THEN <<>> ELSE <<carry>>)
    ELSE LET x == IF a = <<>> THEN 0 ELSE Head(a)
             y == IF b = <<>> THEN 0 ELSE Head(b)
             t == x + y + carry
         IN  <<t % Base>> \o BigAdd(IF a = <<>> THEN <<>> ELSE Tail(a),
                                    IF b = <<>> THEN <<>> ELSE Tail(b), t \div Base)

\* a - b for a >= b, before trimming.
RECURSIVE BigSubLoop(_, _, _)
BigSubLoop(a, b, borrow) ==
    IF a = <<>> THEN <<>>
    ELSE LET y == IF b = <<>> THEN 0 ELSE Head(b)
             t == Head(a) - y - borrow
         IN  <<IF t < 0 THEN t + Base ELSE t>>
                 \o BigSubLoop(Tail(a), IF b = <<>> THEN <<>> ELSE Tail(b),
                               IF t < 0 THEN 1 ELSE 0)

BigSub(a, b) == Trim(BigSubLoop(a, b, 0))

\* a < b, comparing from the most significant limb.
RECURSIVE BigLessSameLen(_, _, _)
BigLessSameLen(a, b, k) ==
    IF k = 0 THEN FALSE
    ELSE IF a[k] # b[k] THEN a[k] < b[k]
    ELSE BigLessSameLen(a, b, k - 1)

BigLess(a, b) ==
    IF Len(a) # Len(b) THEN Len(a) < Len(b) ELSE BigLessSameLen(a, b, Len(a))

\* a * k for k < 2^15.
RECURSIVE BigMulSmall(_, _, _)
BigMulSmall(a, k, carry) ==
    IF a = <<>> THEN (IF carry = 0 THEN <<>> ELSE <<carry>>)
    ELSE LET t == Head(a) * k + carry
         IN  <<t % Base>> \o BigMulSmall(Tail(a), k, t \div Base)

BigTimes(a, k) == Trim(BigMulSmall(a, k, 0))

RECURSIVE BigMul(_, _)
BigMul(a, b) ==
    IF a = <<>> \/ b = <<>> THEN <<>>
    ELSE Trim(BigAdd(BigMulSmall(a, Head(b), 0), <<0>> \o BigMul(a, Tail(b)), 0))

\* a * 2^d: whole limbs first, then the bits within a limb.
BigShiftLeft(a, d) ==
    IF a = <<>> THEN <<>> ELSE [i \in 1..(d \div 15) |-> 0] \o BigTimes(a, 2 ^ (d % 15))

\* floor(a / p) for p < 2^15, from the most significant limb down.
RECURSIVE BigDivSmall(_, _, _, _)
BigDivSmall(a, k, p, carry) ==
    IF k = 0 THEN <<>>
    ELSE LET t == a[k] + carry * Base
         IN  BigDivSmall(a, k - 1, p, t % p) \o <<t \div p>>

\* floor(a / 2^d).
BigShiftRight(a, d) ==
    IF d \div 15 >= Len(a) THEN <<>>
    ELSE LET high == SubSeq(a, d \div 15 + 1, Len(a))
         IN  Trim(BigDivSmall(high, Len(high), 2 ^ (d % 15), 0))

BigOdd(a) == a # <<>> /\ Head(a) % 2 = 1

\* The number of bits of a > 0.
BitLength(a) ==
    15 * (Len(a) - 1) + CHOOSE k \in 1..15 : 2 ^ (k - 1) <= a[Len(a)] /\ a[Len(a)] < 2 ^ k

\* 2^53.
Two53 == <<0, 0, 0, 256>>

\* A positive double is m * 2^ex with 2^52 <= m < 2^53; 0.0 has m = <<>>.
Zero == [m |-> <<>>, ex |-> 0]

\* The double nearest to m * 2^ex + (a remainder below the last bit of m, if
\* sticky), ties to even.
Normalize(m, ex, sticky) ==
    IF m = <<>> THEN Zero
    ELSE LET length == BitLength(m) IN
         IF length <= 53
         THEN [m |-> BigShiftLeft(m, 53 - length), ex |-> ex - (53 - length)]
         ELSE LET shift == length - 53
                  kept == BigShiftRight(m, shift)
                  dropped == BigSub(m, BigShiftLeft(kept, shift))
                  half == BigShiftLeft(<<1>>, shift - 1)
                  up == \/ BigLess(half, dropped)
                        \/ dropped = half /\ (sticky \/ BigOdd(kept))
                  rounded == IF up THEN BigAdd(kept, <<1>>, 0) ELSE kept
              IN  IF rounded = Two53
                  THEN [m |-> BigShiftRight(rounded, 1), ex |-> ex + shift + 1]
                  ELSE [m |-> rounded, ex |-> ex + shift]

DoubleOf(k) == Normalize(BigOf(k), 0, FALSE)

DoubleMul(x, y) ==
    IF x.m = <<>> \/ y.m = <<>> THEN Zero
    ELSE Normalize(BigMul(x.m, y.m), x.ex + y.ex, FALSE)

\* floor(a / 2^45) for a < 2^60.
Leading(a) == IF Len(a) < 4 THEN 0 ELSE BigToInt(SubSeq(a, 4, Len(a)))

\* Long division in base 32: the k highest digits of the quotient of r by d
\* for 2^52 <= d < 2^53 and r < 32 * d, and whether a remainder is left.  A
\* digit lies between the two quotients of the leading limbs.
RECURSIVE DivLoop(_, _, _)
DivLoop(r, d, k) ==
    IF k = 0 THEN [q |-> <<>>, sticky |-> r # <<>>]
    ELSE LET low_digit == Leading(r) \div (Leading(d) + 1)
             high_digit == (Leading(r) + 1) \div Leading(d)
             digit == CHOOSE t \in low_digit..high_digit :
                          /\ ~BigLess(r, BigTimes(d, t))
                          /\ BigLess(r, BigTimes(d, t + 1))
             rest == BigSub(r, BigTimes(d, digit))
             low == DivLoop(BigTimes(rest, 32), d, k - 1)
         IN  [q |-> BigAdd(BigShiftLeft(BigOf(digit), 5 * (k - 1)), low.q, 0),
              sticky |-> low.sticky]

DoubleDiv(x, y) ==
    IF x.m = <<>> THEN Zero
    ELSE LET r == DivLoop(x.m, y.m, 12)
         IN  Normalize(r.q, x.ex - y.ex - 55, r.sticky)

DoubleLess(x, y) ==
    IF y.m = <<>> THEN FALSE
    ELSE IF x.m = <<>> THEN TRUE
    ELSE IF x.ex # y.ex THEN x.ex < y.ex
    ELSE BigLess(x.m, y.m)

\* x + y for x.ex >= y.ex.
DoubleAddOrdered(x, y) ==
    IF x.ex - y.ex > 60 THEN x
    ELSE Normalize(BigAdd(BigShiftLeft(x.m, x.ex - y.ex), y.m, 0), y.ex, FALSE)

DoubleAdd(x, y) ==
    IF x.m = <<>> THEN y
    ELSE IF y.m = <<>> THEN x
    ELSE IF x.ex >= y.ex THEN DoubleAddOrdered(x, y) ELSE DoubleAddOrdered(y, x)

\* std::ceil of a double below 2^30, as an integer.
DoubleCeil(x) ==
    IF x.m = <<>> THEN 0
    ELSE IF x.ex >= 0 THEN BigToInt(BigShiftLeft(x.m, x.ex))
    ELSE LET floor == BigShiftRight(x.m, -x.ex)
         IN  BigToInt(floor) + (IF BigShiftLeft(floor, -x.ex) = x.m THEN 0 ELSE 1)

DoubleMin(a, b) == IF DoubleLess(b, a) THEN b ELSE a

\* AddressWeight::weight: the weight attribute, 1 when there is none.
WeightOf(address) == IF address.has_weight THEN address.weight ELSE 1

RECURSIVE SumOfWeights(_)
SumOfWeights(addresses) ==
    IF addresses = <<>> THEN 0
    ELSE WeightOf(Head(addresses)) + SumOfWeights(Tail(addresses))

\* AddressWeight::normalized_weight = static_cast<double>(weight) / sum.
NormalizedWeight(address, sum) == DoubleDiv(DoubleOf(WeightOf(address)), DoubleOf(sum))

\* address_weights after the second loop: the normalized weight of each entry.
NormalizedWeights(addresses, sum) ==
    [i \in DOMAIN addresses |-> NormalizedWeight(addresses[i], sum)]

\* min_normalized_weight after the second loop, from its value before it.
RECURSIVE MinNormalizedWeight(_, _)
MinNormalizedWeight(address_weights, min_normalized_weight) ==
    IF address_weights = <<>> THEN min_normalized_weight
    ELSE MinNormalizedWeight(Tail(address_weights),
                             DoubleMin(Head(address_weights), min_normalized_weight))

\* scale = std::min(std::ceil(min_normalized_weight * min_ring_size) /
\*                  min_normalized_weight, static_cast<double>(max_ring_size)).
Scale(min_normalized_weight, min_ring_size, max_ring_size) ==
    DoubleMin(DoubleDiv(DoubleOf(DoubleCeil(DoubleMul(min_normalized_weight,
                                                     DoubleOf(min_ring_size)))),
                        min_normalized_weight),
              DoubleOf(max_ring_size))

\* The inner while loop: entries pushed for one host until current_hashes
\* reaches target_hashes.
RECURSIVE PushLoop(_, _, _)
PushLoop(current_hashes, target_hashes, count) ==
    IF DoubleLess(DoubleOf(current_hashes), target_hashes)
    THEN PushLoop(current_hashes + 1, target_hashes, count + 1)
    ELSE count

\* The for loop over the hosts from host i on: the number of ring entries
\* pushed for each host, in order.
RECURSIVE HostLoop(_, _, _, _, _)
HostLoop(address_weights, scale, i, current_hashes, target_hashes) ==
    IF i > Len(address_weights) THEN <<>>
    ELSE LET target == DoubleAdd(target_hashes, DoubleMul(scale, address_weights[i]))
             count == PushLoop(current_hashes, target, 0)
         IN  <<count>> \o HostLoop(address_weights, scale, i + 1, current_hashes + count,
                                   target)

RECURSIVE SumOfCounts(_)
SumOfCounts(counts) ==
    IF counts = <<>> THEN 0 ELSE Head(counts) + SumOfCounts(Tail(counts))

\* The ring the Picker constructor builds for the addresses of a subchannel
\* list and a config: ring_size is what it reserves, counts[i] the entries it
\* pushes for subchannel i, size the ring_.size() it ends with.
PickerRing(addresses, min_ring_size, max_ring_size) ==
    LET sum == SumOfWeights(addresses)
        address_weights == NormalizedWeights(addresses, sum)
        min_normalized_weight == MinNormalizedWeight(address_weights, DoubleOf(1))
        scale == Scale(min_normalized_weight, min_ring_size, max_ring_size)
        counts == HostLoop(address_weights, scale, 1, 0, Zero)
    IN  [done |-> TRUE, addresses |-> addresses, min_ring_size |-> min_ring_size,
         max_ring_size |-> max_ring_size, sum |-> sum,
         min_normalized_weight |-> min_normalized_weight, scale |-> scale,
         ring_size |-> DoubleCeil(scale), counts |-> counts, size |-> SumOfCounts(counts)]

----------------------------------------------------------------------------
(* RingSpec: the ring builder on every small list and config *)

\* The addresses of a subchannel list: the weight attribute is absent or at
\* least 1 (UpdateLocked drops weight 0).
RingAddresses ==
    {[has_weight |-> FALSE, weight |-> 1]}
        \cup [has_weight : {TRUE}, weight : 1..MaxWeight]

\* The Picker constructor runs, once, on a non-empty list and a config the
\* factory accepted (1 <= min_ring_size <= max_ring_size).
BuildRing ==
    /\ ~built.done
    /\ \E n \in 1..MaxEndpoints :
           \E addresses \in [1..n -> RingAddresses] :
               \E max_ring_size \in 1..MaxRingSize :
                   \E min_ring_size \in 1..max_ring_size :
                       built' = PickerRing(addresses, min_ring_size, max_ring_size)
    /\ UNCHANGED <<subchannel_list_, shutdown_, published, pending, last, connectable, ring_,
                   pick, remembered, membership, frame, policy>>
    /\ UNCHANGED race_vars

RingNext == BuildRing

RingSpec == Init /\ [][RingNext]_vars

----------------------------------------------------------------------------
(* FilterSpec: the first update, from its addresses to the ring *)

\* An address of UpdateArgs with any weight up to MaxWeight, 0 included.
WeightedAddresses ==
    {[has_weight |-> FALSE, weight |-> 0]}
        \cup [has_weight : {TRUE}, weight : 0..MaxWeight]

\* GPR_ASSERT(weight_attribute->weight() != 0) failed in the Picker
\* constructor: the process aborts.
GprAssertFailed == [done |-> FALSE, assertion |-> "weight_attribute->weight() != 0"]

\* The Picker constructor on the addresses of a subchannel list: its first
\* loop asserts that no weight attribute is 0.
PickerConstructor(addresses, min_ring_size, max_ring_size) ==
    IF \E i \in DOMAIN addresses : addresses[i].has_weight /\ addresses[i].weight = 0
    THEN GprAssertFailed
    ELSE PickerRing(addresses, min_ring_size, max_ring_size)

\* The first update of a policy: UpdateLocked filters the addresses, and when
\* some are left StartWatchingLocked constructs the Picker from the new
\* list, with the ring sizes of the config.
UpdateAndBuild ==
    /\ subchannel_list_ = NoList
    /\ \E n \in 0..MaxEndpoints :
           \E addresses \in [1..n -> WeightedAddresses] :
               /\ UpdateLocked(addresses)
               /\ built' = IF published'.picker = "Picker"
                           THEN PickerConstructor(FilterAddresses(addresses), 1, MaxRingSize)
                           ELSE NoRing
    /\ UNCHANGED <<pending, connectable, remembered, membership, frame, policy>>
    /\ UNCHANGED race_vars

FilterNext == UpdateAndBuild

FilterSpec == Init /\ [][FilterNext]_vars

----------------------------------------------------------------------------
(* RemovalSpec: the ring before and after an endpoint is removed *)

\* The addresses of a subchannel list of RemovalSpec.
RemovalAddresses ==
    {[has_weight |-> FALSE, weight |-> 1]}
        \cup [has_weight : {TRUE}, weight : 1..MaxRemovalWeight]

\* The list of an update that leaves out element r of the list before it.
Without(list, r) ==
    [i \in 1..(Len(list) - 1) |-> IF i < r THEN list[i] ELSE list[i + 1]]

\* The hash keys of the ring entries pushed for the endpoints: <<e, count>>
\* stands for the string address-of-e + "_" + count, for count from 0 up to the
\* number of entries pushed for e.
HashKeys(endpoints, counts) ==
    UNION {{<<endpoints[i], count>> : count \in 0..(counts[i] - 1)} : i \in DOMAIN endpoints}

\* The ring_ of the Picker constructor: one entry per hash key, with the hash
\* XXH64 gives the key, sorted ascending by hash.  All subchannels are READY.
SortedRing(endpoints, counts, xxh64) ==
    LET keys == HashKeys(endpoints, counts)
        Before(key) == Cardinality({other \in keys : xxh64[other] < xxh64[key]})
        KeyAt(p) == CHOOSE key \in keys : Before(key) = p - 1
    IN  RingOf([p \in 1..Cardinality(keys) |-> xxh64[KeyAt(p)]],
               [p \in 1..Cardinality(keys) |-> KeyAt(p)[1]],
               [e \in {endpoints[i] : i \in DOMAIN endpoints} |-> READY])

\* The Picker constructor counts the entries of each endpoint of a list of at
\* least two addresses; endpoint i is the one of address i.
BuildBefore ==
    /\ membership.stage = "none"
    /\ \E n \in 2..MaxEndpoints :
           \E addresses \in [1..n -> RemovalAddresses] :
               \E min_ring_size \in 1..MaxRemovalMinRingSize :
                   membership' =
                       [stage |-> "built", addresses |-> addresses,
                        min_ring_size |-> min_ring_size, max_ring_size |-> MaxRingSize,
                        before_counts |->
                            PickerRing(addresses, min_ring_size, MaxRingSize).counts]
    /\ UNCHANGED <<subchannel_list_, shutdown_, published, pending, last, connectable, ring_,
                   pick, remembered, built, frame, policy>>
    /\ UNCHANGED race_vars

\* An update with the same config leaves out endpoint removed, and the Picker
\* constructor counts the entries of the endpoints that are left.
RemoveEndpoint ==
    /\ membership.stage = "built"
    /\ \E removed \in DOMAIN membership.addresses :
           membership' =
               [stage |-> "rebuilt", addresses |-> membership.addresses,
                min_ring_size |-> membership.min_ring_size,
                max_ring_size |-> membership.max_ring_size,
                before_counts |-> membership.before_counts,
                removed |-> removed,
                after_counts |->
                    PickerRing(Without(membership.addresses, removed),
                               membership.min_ring_size,
                               membership.max_ring_size).counts]
    /\ UNCHANGED <<subchannel_list_, shutdown_, published, pending, last, connectable, ring_,
                   pick, remembered, built, frame, policy>>
    /\ UNCHANGED race_vars

\* XXH64 gives every hash key of the two rings a hash, the same in both rings
\* and different for different keys, and both rings are sorted.  There are
\* MaxHash + 1 hashes, so at most that many keys.
HashAndSort ==
    /\ membership.stage = "rebuilt"
    /\ LET endpoints == [i \in DOMAIN membership.addresses |-> i]
           left == Without(endpoints, membership.removed)
           keys == HashKeys(endpoints, membership.before_counts)
                       \cup HashKeys(left, membership.after_counts)
       IN  /\ Cardinality(keys) <= MaxHash + 1
           /\ \E xxh64 \in [keys -> Hashes] :
                  /\ \A key \in keys : \A other \in keys :
                         xxh64[key] = xxh64[other] => key = other
                  /\ membership' =
                         [stage |-> "sorted", addresses |-> membership.addresses,
                          min_ring_size |-> membership.min_ring_size,
                          max_ring_size |-> membership.max_ring_size,
                          before_counts |-> membership.before_counts,
                          removed |-> membership.removed,
                          after_counts |-> membership.after_counts,
                          before_ring |->
                              SortedRing(endpoints, membership.before_counts, xxh64),
                          after_ring |-> SortedRing(left, membership.after_counts, xxh64)]
    /\ UNCHANGED <<subchannel_list_, shutdown_, published, pending, last, connectable, ring_,
                   pick, remembered, built, frame, policy>>
    /\ UNCHANGED race_vars

RemovalNext == BuildBefore \/ RemoveEndpoint \/ HashAndSort

RemovalSpec == Init /\ [][RemovalNext]_vars

----------------------------------------------------------------------------
(* StepSpec: one Pick, loop iteration by loop iteration *)

\* Mutant: a probe below h moves lowp to the probe, not past it.
KetamaIterationNoAdvance(ring, h, lowp, highp) ==
    LET first_index == Half(lowp + highp)
        reads == {first_index} \cup (IF first_index = 0 THEN {} ELSE {first_index - 1})
    IN  IF first_index = Len(ring)
        THEN [break |-> TRUE, fault |-> FALSE, first_index |-> 0, lowp |-> lowp,
              highp |-> highp, reads |-> {}]
        ELSE IF ~(reads \subseteq 0..(Len(ring) - 1))
        THEN [break |-> TRUE, fault |-> TRUE, first_index |-> first_index, lowp |-> lowp,
              highp |-> highp, reads |-> reads]
        ELSE LET midval == At(ring, first_index).hash
                 midval1 == IF first_index = 0 THEN 0 ELSE At(ring, first_index - 1).hash
                 lowp2 == IF midval < h THEN first_index ELSE lowp
                 highp2 == IF midval < h THEN highp ELSE first_index - 1
             IN  IF h <= midval /\ h > midval1
                 THEN [break |-> TRUE, fault |-> FALSE, first_index |-> first_index,
                       lowp |-> lowp, highp |-> highp, reads |-> reads]
                 ELSE IF lowp2 > highp2
                 THEN [break |-> TRUE, fault |-> FALSE, first_index |-> 0,
                       lowp |-> lowp2, highp |-> highp2, reads |-> reads]
                 ELSE [break |-> FALSE, fault |-> FALSE, first_index |-> first_index,
                       lowp |-> lowp2, highp |-> highp2, reads |-> reads]

\* One iteration of the while (true) loop of Pick from lowp and highp: whether
\* it breaks, first_index, lowp and highp after it, and the indices of ring_
\* it reads.  A read outside the vector is undefined behaviour: fault.
KetamaIteration(ring, h, lowp, highp) ==
    LET first_index == Half(lowp + highp)
        reads == {first_index} \cup (IF first_index = 0 THEN {} ELSE {first_index - 1})
    IN  IF first_index = Len(ring)
        THEN [break |-> TRUE, fault |-> FALSE, first_index |-> 0, lowp |-> lowp,
              highp |-> highp, reads |-> {}]
        ELSE IF ~(reads \subseteq 0..(Len(ring) - 1))
        THEN [break |-> TRUE, fault |-> TRUE, first_index |-> first_index, lowp |-> lowp,
              highp |-> highp, reads |-> reads]
        ELSE LET midval == At(ring, first_index).hash
                 midval1 == IF first_index = 0 THEN 0 ELSE At(ring, first_index - 1).hash
                 lowp2 == IF midval < h THEN first_index + 1 ELSE lowp
                 highp2 == IF midval < h THEN highp ELSE first_index - 1
             IN  IF h <= midval /\ h > midval1
                 THEN [break |-> TRUE, fault |-> FALSE, first_index |-> first_index,
                       lowp |-> lowp, highp |-> highp, reads |-> reads]
                 ELSE IF lowp2 > highp2
                 THEN [break |-> TRUE, fault |-> FALSE, first_index |-> 0,
                       lowp |-> lowp2, highp |-> highp2, reads |-> reads]
                 ELSE [break |-> FALSE, fault |-> FALSE, first_index |-> first_index,
                       lowp |-> lowp2, highp |-> highp2, reads |-> reads]

\* Pick is called with a request hash that parses: lowp = 0,
\* highp = ring_.size(), the result is initialised to PICK_FAILED.
CallPick ==
    /\ frame.pc = "none"
    /\ \E h \in Hashes :
           frame' = [pc |-> "search", h |-> h, lowp |-> 0, highp |-> Len(ring_),
                     first_index |-> 0, reads |-> {}, search_iterations |-> 0, i |-> 0,
                     found_second_subchannel |-> FALSE, found_first_non_failed |-> FALSE,
                     type |-> "PICK_FAILED", subchannel |-> NoSubchannel,
                     attempts |-> <<>>, walk_iterations |-> 0]
    /\ UNCHANGED <<subchannel_list_, shutdown_, published, pending, last, connectable, ring_,
                   pick, remembered, built, membership, policy>>
    /\ UNCHANGED race_vars

\* One iteration of the while (true) loop.
SearchIteration ==
    /\ frame.pc = "search"
    /\ LET iteration == KetamaIteration(ring_, frame.h, frame.lowp, frame.highp)
       IN  frame' = [frame EXCEPT
                        !.pc = IF iteration.fault THEN "fault"
                               ELSE IF iteration.break THEN "helper" ELSE "search",
                        !.lowp = iteration.lowp,
                        !.highp = iteration.highp,
                        !.first_index = iteration.first_index,
                        !.reads = @ \cup iteration.reads,
                        !.search_iterations = @ + 1]
    /\ UNCHANGED <<subchannel_list_, shutdown_, published, pending, last, connectable, ring_,
                   pick, remembered, built, membership, policy>>
    /\ UNCHANGED race_vars

\* ConnectAndPickHelper on ring_[first_index], and the return that follows it
\* unless the result is still PICK_FAILED.
FirstEntry ==
    /\ frame.pc = "helper"
    /\ LET entry == At(ring_, frame.first_index)
           helper == ConnectAndPickHelper(entry)
       IN  frame' = [frame EXCEPT
                        !.pc = IF helper.type # "PICK_FAILED" THEN "returned" ELSE "walk",
                        !.type = helper.type,
                        !.subchannel = helper.subchannel,
                        !.attempts = IF helper.attempt_to_connect
                                     THEN <<entry.subchannel>> ELSE <<>>,
                        !.i = 1]
    /\ UNCHANGED <<subchannel_list_, shutdown_, published, pending, last, connectable, ring_,
                   pick, remembered, built, membership, policy>>
    /\ UNCHANGED race_vars

\* The test i < ring_.size() of the for loop and, when it holds, one
\* iteration of its body.
WalkIteration ==
    /\ frame.pc = "walk"
    /\ IF ~(frame.i < Len(ring_))
       THEN frame' = [frame EXCEPT !.pc = "returned"]
       ELSE LET entry == At(ring_, (frame.first_index + frame.i) % Len(ring_))
                first_channel == At(ring_, frame.first_index).subchannel
            IN  frame' =
                    IF entry.subchannel = first_channel
                    THEN [frame EXCEPT !.i = @ + 1, !.walk_iterations = @ + 1]
                    ELSE IF entry.connectivity_state = READY
                    THEN [frame EXCEPT !.pc = "returned", !.type = "PICK_COMPLETE",
                                       !.subchannel = entry.subchannel,
                                       !.walk_iterations = @ + 1]
                    ELSE IF entry.connectivity_state = CONNECTING
                            /\ ~frame.found_second_subchannel
                    THEN [frame EXCEPT !.pc = "returned", !.type = "PICK_QUEUE",
                                       !.walk_iterations = @ + 1]
                    ELSE [frame EXCEPT
                             !.i = @ + 1,
                             !.walk_iterations = @ + 1,
                             !.found_second_subchannel = TRUE,
                             !.found_first_non_failed =
                                 @ \/ entry.connectivity_state # TRANSIENT_FAILURE,
                             !.attempts =
                                 IF /\ ~frame.found_first_non_failed
                                    /\ entry.connectivity_state \in {TRANSIENT_FAILURE, IDLE}
                                 THEN Append(@, entry.subchannel) ELSE @]
    /\ UNCHANGED <<subchannel_list_, shutdown_, published, pending, last, connectable, ring_,
                   pick, remembered, built, membership, policy>>
    /\ UNCHANGED race_vars

StepNext == CallPick \/ SearchIteration \/ FirstEntry \/ WalkIteration

StepSpec == PickInit /\ [][StepNext]_vars

\* Pick runs on the thread of its caller and waits for nothing: the thread
\* takes its next step.
StepFairSpec == StepSpec /\ WF_vars(StepNext)

----------------------------------------------------------------------------
(* LifetimeSpec: who holds a reference to the policy *)

\* policy->Ref(): one more reference.
Ref(p) == [p EXCEPT !.refs = @ + 1]

\* policy->Unref(): one reference fewer.  The Unref that drops the last one
\* runs ~RingHash, which asserts that subchannel_list_ is null.
Unref(p, list) ==
    [p EXCEPT !.refs = @ - 1,
              !.destroyed = (p.refs - 1 = 0),
              !.asserted = IF p.refs - 1 = 0 THEN list = NoList ELSE @]

\* Mutant: the constructor of a subchannel list takes no reference.
SubchannelListConstructorNoRef(p) == p

\* The constructor of RingHashSubchannelList takes a reference to the policy
\* and releases the pointer: the list owns it until its destructor.
SubchannelListConstructor(p) == Ref(p)

\* The picker of an UpdateState call: a Picker and a QueuePicker are made with
\* p->Ref(), a TransientFailurePicker with none.
PickerRef(p, update) ==
    IF update.picker = "Picker" THEN [Ref(p) EXCEPT !.ring_pickers = @ + 1]
    ELSE IF update.picker = "QueuePicker" THEN [Ref(p) EXCEPT !.queue_pickers = @ + 1]
    ELSE p

\* UpdateLocked: the new list is constructed, the list it replaces is
\* orphaned and lives on until its watchers let go of it, and a picker is
\* published.
LifetimeUpdate ==
    /\ ~policy.destroyed
    /\ \E addresses \in AddressLists :
           /\ Len(addresses) <= MaxLifetimeAddresses
           /\ UpdateLocked(addresses)
           /\ LET constructed == SubchannelListConstructor(policy)
                  replaced == IF subchannel_list_ = NoList THEN constructed
                              ELSE [constructed EXCEPT !.orphaned_lists = @ + 1]
              IN  policy' = PickerRef(replaced, published')
    /\ policy'.orphaned_lists <= MaxOrphanedLists
    /\ policy'.ring_pickers <= MaxPickers
    /\ policy'.queue_pickers <= MaxPickers
    /\ UNCHANGED <<pending, connectable, remembered, built, membership, frame>>
    /\ UNCHANGED race_vars

\* A connectivity callback of the current list publishes a picker.
LifetimeCallback ==
    /\ ~policy.destroyed
    /\ \E i \in 0..(MaxLifetimeAddresses - 1), s \in ConnectivityStates :
           ProcessConnectivityChangeLocked(i, s)
    /\ policy' = PickerRef(policy, published')
    /\ policy'.ring_pickers <= MaxPickers
    /\ policy'.queue_pickers <= MaxPickers
    /\ UNCHANGED <<pending, connectable, remembered, built, membership, frame>>
    /\ UNCHANGED race_vars

\* The owner orphans the policy: ShutdownLocked resets the current list,
\* then the owner's reference is released.
LifetimeOrphan ==
    /\ ~policy.destroyed
    /\ policy.owned
    /\ ShutdownLocked
    /\ policy' = Unref([policy EXCEPT
                            !.owned = FALSE,
                            !.orphaned_lists =
                                @ + (IF subchannel_list_ = NoList THEN 0 ELSE 1)],
                       subchannel_list_')
    /\ UNCHANGED <<pending, connectable, remembered, built, membership, frame>>
    /\ UNCHANGED race_vars

\* The last reference to a list that was replaced or reset goes away:
\* ~RingHashSubchannelList releases the list's reference to the policy.
LifetimeDestroyList ==
    /\ ~policy.destroyed
    /\ policy.orphaned_lists > 0
    /\ policy' = Unref([policy EXCEPT !.orphaned_lists = @ - 1], subchannel_list_)
    /\ UNCHANGED <<subchannel_list_, shutdown_, published, pending, last, connectable, ring_,
                   pick, remembered, built, membership, frame>>
    /\ UNCHANGED race_vars

\* The channel destroys a Picker it no longer uses, and with it parent_: any
\* but the published one, and that one too once the policy is shut down.
LifetimeDestroyPicker ==
    /\ ~policy.destroyed
    /\ policy.ring_pickers
           > (IF ~shutdown_ /\ published.picker = "Picker" THEN 1 ELSE 0)
    /\ policy' = Unref([policy EXCEPT !.ring_pickers = @ - 1], subchannel_list_)
    /\ UNCHANGED <<subchannel_list_, shutdown_, published, pending, last, connectable, ring_,
                   pick, remembered, built, membership, frame>>
    /\ UNCHANGED race_vars

\* The same for a QueuePicker and the reference it was made with.
LifetimeDestroyQueuePicker ==
    /\ ~policy.destroyed
    /\ policy.queue_pickers
           > (IF ~shutdown_ /\ published.picker = "QueuePicker" THEN 1 ELSE 0)
    /\ policy' = Unref([policy EXCEPT !.queue_pickers = @ - 1], subchannel_list_)
    /\ UNCHANGED <<subchannel_list_, shutdown_, published, pending, last, connectable, ring_,
                   pick, remembered, built, membership, frame>>
    /\ UNCHANGED race_vars

\* A Pick on a Picker that is alive makes a SubchannelConnectionAttempter
\* from a copy of parent_.
LifetimePick ==
    /\ ~policy.destroyed
    /\ policy.ring_pickers > 0
    /\ policy.attempters < MaxAttempters
    /\ policy' = [Ref(policy) EXCEPT !.attempters = @ + 1]
    /\ UNCHANGED <<subchannel_list_, shutdown_, published, pending, last, connectable, ring_,
                   pick, remembered, built, membership, frame>>
    /\ UNCHANGED race_vars

\* The task of an attempter ends with delete self, which releases
\* ring_hash_lb_.
LifetimeTask ==
    /\ ~policy.destroyed
    /\ policy.attempters > 0
    /\ policy' = Unref([policy EXCEPT !.attempters = @ - 1], subchannel_list_)
    /\ UNCHANGED <<subchannel_list_, shutdown_, published, pending, last, connectable, ring_,
                   pick, remembered, built, membership, frame>>
    /\ UNCHANGED race_vars

LifetimeNext ==
    \/ LifetimeUpdate
    \/ LifetimeCallback
    \/ LifetimeOrphan
    \/ LifetimeDestroyList
    \/ LifetimeDestroyPicker
    \/ LifetimeDestroyQueuePicker
    \/ LifetimePick
    \/ LifetimeTask

LifetimeSpec == Init /\ [][LifetimeNext]_vars

----------------------------------------------------------------------------
(* StickySpec: repeated Picks on one picker *)

\* The rings of at most MaxRing - 2 entries.
StickyInit ==
    /\ PickInit
    /\ Len(ring_) <= MaxRing - 2

\* One more Pick on the same picker.  The Pick before it may become the one
\* remembered, so that every pair of Picks of a behaviour is compared in some
\* behaviour.
DoPickAgain ==
    /\ \E h \in Hashes : pick' = PickCall(ring_, Decimal(h))
    /\ remembered' \in {remembered, pick}
    /\ UNCHANGED <<subchannel_list_, shutdown_, published, pending, last, connectable, ring_,
                   built, membership, frame, policy>>
    /\ UNCHANGED race_vars

StickyNext == DoPickAgain

StickySpec == StickyInit /\ [][StickyNext]_vars

----------------------------------------------------------------------------
(* RaceSpec: Picks and attempter tasks against updates, callbacks and
   shutdown *)

\* The SubchannelInterface object of index i of the list of generation g:
\* every list creates its own subchannels.
SubchannelId(g, i) == (g - 1) * MaxListSize + i

\* The subchannels of the list l of generation g.
ListSubchannels(g, l) == {SubchannelId(g, i) : i \in DOMAIN l.sd}

\* The ring of a Picker built from a list of n subchannels of generation g:
\* two entries per subchannel (what equal weights and a ring size of 2 * n
\* give), entry k with hash k, each with the state CheckConnectivityState
\* returned for its subchannel.
NewRing(g, n, states) ==
    RingOf([k \in 1..(2 * n) |-> k],
           [k \in 1..(2 * n) |-> SubchannelId(g, (k - 1) \div 2)],
           states)

\* What CheckConnectivityState returns for the subchannels of the list l of
\* generation g while a Picker is built: the states the list saw last, or a
\* failure of every subchannel that the watchers have not been told of yet.
CheckConnectivityState(g, l) ==
    {[subchannel \in ListSubchannels(g, l) |->
         l.sd[subchannel - SubchannelId(g, 0)].last_connectivity_state_],
     [subchannel \in ListSubchannels(g, l) |-> TRANSIENT_FAILURE]}

\* Mutant: ring entries point at their subchannels without owning them.
RingEntryBorrows(ring, subchannel) == 0

\* The references ring entries hold on a subchannel: one Ref() per push_back.
RingEntryRefs(ring, subchannel) ==
    Cardinality({k \in DOMAIN ring : ring[k].subchannel = subchannel})

\* The references an attempter holds on a subchannel: one RefCountedPtr per
\* AddSubchannel.
CollectedRefs(subchannels, subchannel) ==
    Cardinality({k \in DOMAIN subchannels : subchannels[k] = subchannel})

\* Mutant: a Picker is rebuilt in place, in the first slot, whatever it holds.
FirstSlot(ps) == 1

\* absl::make_unique<Picker>: a new object, in the first slot that holds no
\* Picker; 0 when MaxPickers are alive.
FreeSlot(ps) ==
    IF \E slot \in DOMAIN ps : ~ps[slot].live
    THEN CHOOSE slot \in DOMAIN ps : ~ps[slot].live /\ \A t \in 1..(slot - 1) : ps[t].live
    ELSE 0

\* Mutant: the task calls AttemptToConnect without reading shutdown_.
TaskAttemptsUnchecked(subchannels, shutdown) == subchannels

\* Mutant: the task calls AttemptToConnect once per subchannel, however many
\* references to it were collected.
RECURSIVE TaskAttemptsOncePerSubchannel(_, _)
TaskAttemptsOncePerSubchannel(subchannels, shutdown) ==
    IF shutdown \/ subchannels = <<>> THEN <<>>
    ELSE LET rest == TaskAttemptsOncePerSubchannel(Tail(subchannels), shutdown)
         IN  IF \E k \in DOMAIN rest : rest[k] = Head(subchannels)
             THEN rest
             ELSE <<Head(subchannels)>> \o rest

\* The AttemptToConnect calls of the attempter's task on the work serializer.
TaskAttempts(subchannels, shutdown) == IF ~shutdown THEN subchannels ELSE <<>>

\* Mutant: a list that is not current aggregates and publishes like the
\* current one.
UpdateRingHashUnchecked(l) == UpdateRingHashConnectivityStateLocked(l)

\* UpdateRingHashConnectivityStateLocked on a list l that is not
\* p->subchannel_list_: it returns false before any UpdateState.
UpdateRingHashNotCurrent(l) == [reattempt |-> FALSE, update |-> NoUpdate]

\* Whether one of the subchannels is used while nothing references it.
Dangling(subchannels) ==
    \E k \in DOMAIN subchannels :
        subchannels[k] # NoSubchannel /\ refs[subchannels[k]] = 0

\* RingHash::UpdateLocked with a list of n addresses: the new list holds one
\* reference on each of its subchannels, the list it replaces is orphaned and
\* drops its references, and StartWatchingLocked builds a Picker from the new
\* list when it is not empty.
RaceUpdate ==
    /\ generation < MaxGenerations
    /\ \E n \in 0..MaxListSize :
         /\ n > 0 => FreeSlot(pickers) # 0
         /\ UpdateLocked([k \in 1..n |-> [has_weight |-> FALSE, weight |-> 0]])
         /\ LET g == generation + 1
                new == {SubchannelId(g, i) : i \in 0..(n - 1)}
                old == IF subchannel_list_ = NoList THEN {}
                       ELSE ListSubchannels(generation, subchannel_list_)
            IN  \E states \in CheckConnectivityState(g, subchannel_list_') :
                    LET ring == NewRing(g, n, states)
                    IN  /\ pickers' =
                               IF n > 0
                               THEN [pickers EXCEPT ![FreeSlot(pickers)] =
                                        [live |-> TRUE, generation |-> g, ring |-> ring]]
                               ELSE pickers
                        /\ refs' = [subchannel \in DOMAIN refs \cup new |->
                                       IF subchannel \in new
                                       THEN 1 + RingEntryRefs(ring, subchannel)
                                       ELSE IF subchannel \in old
                                       THEN refs[subchannel] - 1
                                       ELSE refs[subchannel]]
    /\ generation' = generation + 1
    /\ notified' = Append(notified, 0)
    /\ orphaned' = IF subchannel_list_ = NoList THEN orphaned
                   ELSE Append(orphaned, subchannel_list_)
    /\ calls' = [NoCalls EXCEPT !.op = "UpdateLocked", !.updates = 1]
    /\ UNCHANGED <<pending, connectable, remembered, built, membership, frame, policy, attempters>>

\* A watcher notification of a state change for subchannel i of the current
\* list: the handler runs, and the Picker it publishes with READY is built from the list.
CurrentCallback(i, connectivity_state) ==
    /\ subchannel_list_ # NoList
    /\ i \in DOMAIN subchannel_list_.sd
    /\ connectivity_state # subchannel_list_.sd[i].last_connectivity_state_
    /\ notified[generation] < MaxNotifications
    /\ notified' = [notified EXCEPT ![generation] = @ + 1]
    /\ ProcessConnectivityChangeLocked(i, connectivity_state)
    /\ IF published'.picker = "Picker"
       THEN /\ FreeSlot(pickers) # 0
            /\ \E states \in CheckConnectivityState(generation, subchannel_list_') :
                   LET ring == NewRing(generation, num_subchannels(subchannel_list_), states)
                   IN  /\ pickers' = [pickers EXCEPT ![FreeSlot(pickers)] =
                                         [live |-> TRUE, generation |-> generation,
                                          ring |-> ring]]
                       /\ refs' = [subchannel \in DOMAIN refs |->
                                      refs[subchannel] + RingEntryRefs(ring, subchannel)]
       ELSE UNCHANGED <<pickers, refs>>
    /\ LET attempts == [k \in DOMAIN last'.attempts |->
                           SubchannelId(generation, last'.attempts[k])]
       IN  calls' = [NoCalls EXCEPT !.op = "ProcessConnectivityChangeLocked",
                                    !.updates = Len(last'.updates),
                                    !.attempts = attempts,
                                    !.dangling = Dangling(attempts)]
    /\ UNCHANGED <<pending, connectable, remembered, built, membership, frame, policy, generation, orphaned, attempters>>

\* A watcher notification of a state change for subchannel i of the orphaned
\* list of generation g (ring_hash.cc does not rely on the watch being cancelled): the handler
\* asks for re-resolution, counts the state in its own list and stops at the
\* test for the current list.
StaleCallback(g, i, connectivity_state) ==
    /\ g \in DOMAIN orphaned
    /\ notified[g] < MaxNotifications
    /\ notified' = [notified EXCEPT ![g] = @ + 1]
    /\ i \in DOMAIN orphaned[g].sd
    /\ connectivity_state # orphaned[g].sd[i].last_connectivity_state_
    /\ LET l == UpdateConnectivityStateLocked(orphaned[g], i, connectivity_state)
           agg == UpdateRingHashNotCurrent(l)
           attempts ==
               IF agg.reattempt /\ connectivity_state = TRANSIENT_FAILURE
               THEN <<SubchannelId(g, next_index(l, i))>>
               ELSE <<>>
       IN  /\ orphaned' = [orphaned EXCEPT ![g] = l]
           /\ published' = IF agg.update = NoUpdate THEN published ELSE agg.update
           /\ calls' = [NoCalls EXCEPT !.op = "ProcessConnectivityChangeLocked",
                                       !.stale = TRUE,
                                       !.updates = IF agg.update = NoUpdate THEN 0 ELSE 1,
                                       !.attempts = attempts,
                                       !.dangling = Dangling(attempts)]
    /\ UNCHANGED <<subchannel_list_, shutdown_, pending, last, connectable, ring_, pick,
                   remembered, built, membership, frame, policy, generation, pickers, attempters, refs>>

RaceCallback ==
    \E g \in 1..MaxGenerations, i \in 0..(MaxListSize - 1), s \in ConnectivityStates :
        \/ g = generation /\ CurrentCallback(i, s)
        \/ StaleCallback(g, i, s)

\* RingHash::ShutdownLocked: the list that is reset is orphaned and drops its
\* references.
RaceShutdown ==
    /\ ShutdownLocked
    /\ orphaned' = IF subchannel_list_ = NoList THEN orphaned
                   ELSE Append(orphaned, subchannel_list_)
    /\ refs' = [subchannel \in DOMAIN refs |->
                   IF subchannel_list_ # NoList
                      /\ subchannel \in ListSubchannels(generation, subchannel_list_)
                   THEN refs[subchannel] - 1
                   ELSE refs[subchannel]]
    /\ calls' = [NoCalls EXCEPT !.op = "ShutdownLocked"]
    /\ UNCHANGED <<remembered, built, membership, frame, policy, generation, pickers, attempters, notified>>

\* Pick on a Picker that is alive, on a data-plane thread.  The subchannels it
\* collected are held by a SubchannelConnectionAttempter, which is orphaned
\* when Pick returns: Orphan hands its closure to the ExecCtx, and Pick itself
\* calls AttemptToConnect on nothing.
RacePick(slot, h) ==
    /\ pickers[slot].live
    /\ LET result == PickCall(pickers[slot].ring, Decimal(h))
       IN  /\ result.attempts # <<>> => Len(attempters) < MaxAttempters
           /\ attempters' =
                  IF result.attempts # <<>>
                  THEN Append(attempters, [subchannels |-> result.attempts])
                  ELSE attempters
           /\ refs' = [subchannel \in DOMAIN refs |->
                          refs[subchannel] + CollectedRefs(result.attempts, subchannel)]
           /\ calls' = [NoCalls EXCEPT !.op = "Pick",
                                       !.collected = result.attempts,
                                       !.returned = result.subchannel,
                                       !.dangling = Dangling(<<result.subchannel>>
                                                                 \o result.attempts)]
    /\ UNCHANGED <<subchannel_list_, shutdown_, published, pending, last, connectable, ring_,
                   pick, remembered, built, membership, frame, policy, generation, orphaned, pickers, notified>>

\* The closure of an orphaned attempter runs and its task runs on the work
\* serializer: AttemptToConnect on what was collected unless the policy is shut
\* down, then delete self.
TaskRun(k) ==
    /\ k \in DOMAIN attempters
    /\ LET subchannels == attempters[k].subchannels
           attempts == TaskAttempts(subchannels, shutdown_)
       IN  /\ attempters' = SubSeq(attempters, 1, k - 1)
                                \o SubSeq(attempters, k + 1, Len(attempters))
           /\ refs' = [subchannel \in DOMAIN refs |->
                          refs[subchannel] - CollectedRefs(subchannels, subchannel)]
           /\ calls' = [NoCalls EXCEPT !.op = "Task",
                                       !.collected = subchannels,
                                       !.attempts = attempts,
                                       !.dangling = Dangling(attempts)]
    /\ UNCHANGED <<subchannel_list_, shutdown_, published, pending, last, connectable, ring_,
                   pick, remembered, built, membership, frame, policy, generation, orphaned, pickers, notified>>

\* The holder of a Picker (the channel, a parent policy) destroys it: its ring
\* entries drop their references.
DestroyPicker(slot) ==
    /\ pickers[slot].live
    /\ pickers' = [pickers EXCEPT ![slot] = NoPicker]
    /\ refs' = [subchannel \in DOMAIN refs |->
                   refs[subchannel] - RingEntryRefs(pickers[slot].ring, subchannel)]
    /\ calls' = [NoCalls EXCEPT !.op = "~Picker"]
    /\ UNCHANGED <<subchannel_list_, shutdown_, published, pending, last, connectable, ring_,
                   pick, remembered, built, membership, frame, policy, generation, orphaned, attempters, notified>>

RacePicks == \E slot \in 1..MaxPickers, h \in Hashes : RacePick(slot, h)

RaceTasks == \E k \in 1..MaxAttempters : TaskRun(k)

RaceDestroys == \E slot \in 1..MaxPickers : DestroyPicker(slot)

RaceNext ==
    RaceUpdate \/ RaceCallback \/ RaceShutdown \/ RacePicks \/ RaceTasks \/ RaceDestroys

RaceSpec == Init /\ [][RaceNext]_vars

\* The ExecCtx runs every closure handed to it and the work serializer every
\* task: an attempter that is pending is run.
RaceFairSpec == RaceSpec /\ WF_vars(RaceTasks)

----------------------------------------------------------------------------
(* Properties of the control plane *)

\* The state the counters are meant to reflect for a subchannel.
reported_state(d) ==
    IF d.seen_failure_since_ready_ THEN TRANSIENT_FAILURE ELSE d.last_connectivity_state_

\* The number of subchannels of l whose reported state is s.
Population(l, s) == Cardinality({i \in DOMAIN l.sd : reported_state(l.sd[i]) = s})

\* The four counters of l, by state.
CountersOf(l) ==
    [s \in ConnectivityStates |->
        IF s = IDLE THEN l.num_idle_
        ELSE IF s = CONNECTING THEN l.num_connecting_
        ELSE IF s = READY THEN l.num_ready_
        ELSE l.num_transient_failure_]

\* Counters c after one subchannel's count moved from state from to state to.
Moved(c, from, to) ==
    [s \in ConnectivityStates |->
        c[s] - (IF s = from THEN 1 ELSE 0) + (IF s = to THEN 1 ELSE 0)]

SumOfCounters(l) == l.num_idle_ + l.num_connecting_ + l.num_ready_ + l.num_transient_failure_

AfterCallback == last.op = "ProcessConnectivityChangeLocked"

\* C1 (as claimed): after StartWatchingLocked and after every callback, each
\* counter equals the number of subchannels whose reported state is that
\* state, and the counters sum to the number of subchannels.
C1_CountersMatchPopulation ==
    subchannel_list_ # NoList =>
        /\ \A s \in ConnectivityStates :
               CountersOf(subchannel_list_)[s] = Population(subchannel_list_, s)
        /\ SumOfCounters(subchannel_list_) = num_subchannels(subchannel_list_)

\* The aggregation table of the claim, from the counters alone.
AggregatedFromCounters(l) ==
    IF l.num_ready_ >= 1
    THEN [state |-> READY, picker |-> "Picker"]
    ELSE IF l.num_connecting_ >= 1 /\ l.num_transient_failure_ < 2
    THEN [state |-> CONNECTING, picker |-> "QueuePicker"]
    ELSE IF l.num_idle_ >= 1 /\ l.num_transient_failure_ < 2
    THEN [state |-> IDLE, picker |-> "QueuePicker"]
    ELSE [state |-> TRANSIENT_FAILURE, picker |-> "TransientFailurePicker"]

\* C2: a callback on the current list makes exactly one UpdateState call, and
\* the state and the kind of picker it publishes are those the table gives for
\* the counters.
C2_PublishedFromCounters ==
    AfterCallback =>
        /\ Len(last.updates) = 1
        /\ published = last.updates[1]
        /\ [state |-> published.state, picker |-> published.picker]
               = AggregatedFromCounters(subchannel_list_)

\* C2 witness: a callback published CONNECTING with a queue-only picker while
\* one subchannel was counted in TRANSIENT_FAILURE and another IDLE.
C2_Witness ==
    /\ AfterCallback
    /\ published.state = CONNECTING
    /\ published.picker = "QueuePicker"
    /\ subchannel_list_.num_transient_failure_ = 1
    /\ subchannel_list_.num_idle_ >= 1

\* The effect the claim gives a callback reporting s on subchannel i.
LatchStep(i, s) ==
    LET d == subchannel_list_.sd[i]
        e == subchannel_list_'.sd[i]
        before == CountersOf(subchannel_list_)
        after == CountersOf(subchannel_list_')
    IN  /\ e.last_connectivity_state_ = s
        /\ e.seen_failure_since_ready_ =
               (IF s = READY THEN FALSE
                ELSE IF s = TRANSIENT_FAILURE THEN TRUE
                ELSE d.seen_failure_since_ready_)
        /\ IF d.seen_failure_since_ready_
           THEN IF s = READY
                THEN after = Moved(before, TRANSIENT_FAILURE, READY)
                ELSE after = before
           ELSE after = Moved(before, d.last_connectivity_state_, s)

\* C3 (as claimed): every callback sets the latch on TRANSIENT_FAILURE, clears
\* it only on READY, leaves the counters alone while the latch is set and the
\* new state is not READY, moves the count from TRANSIENT_FAILURE to READY when
\* a latched subchannel becomes READY, moves it from the previous state to the
\* new state while the latch is clear, and records the new state.
C3_LatchRule ==
    [][\A i \in 0..(MaxAddresses - 1) : \A s \in ConnectivityStates :
          ProcessConnectivityChangeLocked(i, s) => LatchStep(i, s)]_vars

\* C4 (as claimed): once a callback has been processed, whenever no subchannel
\* of the current list is READY, some subchannel is CONNECTING or has had
\* AttemptToConnect requested since its last callback.
C4_AttemptInFlight ==
    (/\ AfterCallback
     /\ \A i \in DOMAIN subchannel_list_.sd :
            subchannel_list_.sd[i].last_connectivity_state_ # READY)
    => \E i \in DOMAIN subchannel_list_.sd :
            \/ subchannel_list_.sd[i].last_connectivity_state_ = CONNECTING
            \/ i \in pending

\* Some backend of the current list accepts connections.
SomeConnectable ==
    /\ subchannel_list_ # NoList
    /\ \E i \in DOMAIN subchannel_list_.sd : connectable[i]

\* C5 (as claimed): whenever the policy reports TRANSIENT_FAILURE or IDLE (so
\* that no pick reaches it) and some backend accepts connections, the policy
\* eventually reports READY.
C5_RecoversWithoutPicks ==
    (SomeConnectable /\ published.state \in {TRANSIENT_FAILURE, IDLE})
        ~> (published.state = READY)

\* C6 (as claimed): a callback on subchannel i that leaves the aggregated state
\* IDLE or TRANSIENT_FAILURE calls AttemptToConnect on subchannel (i+1) mod n.
C6_ReconnectsNext ==
    (AfterCallback /\ published.state \in {IDLE, TRANSIENT_FAILURE})
    => last.attempts = <<(last.index + 1) % num_subchannels(subchannel_list_)>>

----------------------------------------------------------------------------
(* Properties of Pick *)

\* The smallest index whose hash is at least h, or 0 when there is none.
LowerBound(ring, h) ==
    LET candidates == {k \in 0..(Len(ring) - 1) : At(ring, k).hash >= h}
    IN  IF candidates = {} THEN 0
        ELSE CHOOSE k \in candidates : \A j \in candidates : k <= j

\* C7: the binary search of Pick ends at the smallest index whose hash is at
\* least the request hash, or at 0 when every hash is smaller.
C7_LookupIsLowerBound ==
    pick.done => pick.first_index = LowerBound(ring_, pick.h)

\* C7 witness: a Pick whose request hash equals a hash the ring holds twice,
\* after a smaller one, and that ended at the first of the two.
C7_Witness ==
    /\ pick.done
    /\ Len(ring_) >= 4
    /\ pick.first_index = 1
    /\ At(ring_, 0).hash < pick.h
    /\ At(ring_, 1).hash = pick.h
    /\ At(ring_, 2).hash = pick.h
    /\ At(ring_, 3).hash > pick.h

\* How often subchannel c was handed to the connection attempter.
TimesAttempted(c) == Cardinality({k \in DOMAIN pick.attempts : pick.attempts[k] = c})

\* C8: the entry the lookup chose decides as follows.  READY: COMPLETE with
\* its subchannel, no attempt.  IDLE: QUEUE, one attempt, on its subchannel.
\* CONNECTING: QUEUE, no attempt.  TRANSIENT_FAILURE: no result, the first
\* attempt collected is on its subchannel (once) and the fallback loop runs.
C8_FirstEntryRule ==
    pick.done =>
        LET entry == At(ring_, pick.first_index)
        IN  /\ entry.connectivity_state = READY =>
                /\ pick.type = "PICK_COMPLETE"
                /\ pick.subchannel = entry.subchannel
                /\ pick.attempts = <<>>
                /\ ~pick.walked
            /\ entry.connectivity_state = IDLE =>
                /\ pick.type = "PICK_QUEUE"
                /\ pick.subchannel = NoSubchannel
                /\ pick.attempts = <<entry.subchannel>>
                /\ ~pick.walked
            /\ entry.connectivity_state = CONNECTING =>
                /\ pick.type = "PICK_QUEUE"
                /\ pick.subchannel = NoSubchannel
                /\ pick.attempts = <<>>
                /\ ~pick.walked
            /\ entry.connectivity_state = TRANSIENT_FAILURE =>
                /\ pick.walked
                /\ pick.attempts # <<>>
                /\ Head(pick.attempts) = entry.subchannel
                /\ TimesAttempted(entry.subchannel) = 1

\* C8 witness: the chosen entry was IDLE and the ring holds another IDLE
\* subchannel, which was not asked to connect.
C8_Witness ==
    /\ pick.done
    /\ At(ring_, pick.first_index).connectivity_state = IDLE
    /\ \E k \in 0..(Len(ring_) - 1) :
           /\ At(ring_, k).subchannel # At(ring_, pick.first_index).subchannel
           /\ At(ring_, k).connectivity_state = IDLE
           /\ TimesAttempted(At(ring_, k).subchannel) = 0

\* The subchannels on a ring.
SubchannelsOf(ring) == {ring[k].subchannel : k \in DOMAIN ring}

\* The state the ring holds for subchannel c.
StateOnRing(ring, c) ==
    ring[CHOOSE k \in DOMAIN ring : ring[k].subchannel = c].connectivity_state

\* Exactly one subchannel of the ring is READY, every other one is in
\* TRANSIENT_FAILURE.
OneReadyOthersFailed(ring) ==
    \E r \in SubchannelsOf(ring) :
        /\ StateOnRing(ring, r) = READY
        /\ \A c \in SubchannelsOf(ring) \ {r} : StateOnRing(ring, c) = TRANSIENT_FAILURE

\* C9: on a ring with one READY subchannel and every other subchannel in
\* TRANSIENT_FAILURE, every Pick returns COMPLETE with the READY subchannel.
C9_ReadyAmongFailed ==
    (pick.done /\ OneReadyOthersFailed(ring_)) =>
        /\ pick.type = "PICK_COMPLETE"
        /\ pick.subchannel \in SubchannelsOf(ring_)
        /\ StateOnRing(ring_, pick.subchannel) = READY

\* C9 witness: the fallback loop found the READY subchannel after at least
\* three connection attempts were collected on failed entries, on a ring where
\* the chosen subchannel has a second entry that the loop skipped.
C9_Witness ==
    /\ pick.done
    /\ OneReadyOthersFailed(ring_)
    /\ pick.walked
    /\ pick.type = "PICK_COMPLETE"
    /\ Len(pick.attempts) >= 3
    /\ \E k \in 0..(Len(ring_) - 1) :
           /\ k # pick.first_index
           /\ At(ring_, k).subchannel = At(ring_, pick.first_index).subchannel

\* The fallback loop ran to its end: neither COMPLETE nor QUEUE.
WalkExhausted == pick.done /\ pick.walked /\ pick.type \notin {"PICK_COMPLETE", "PICK_QUEUE"}

\* C10 (as claimed): when the fallback loop ends without COMPLETE or QUEUE,
\* Pick returns FAIL with status UNAVAILABLE and no subchannel.
C10_ExhaustionUnavailable ==
    WalkExhausted =>
        /\ pick.type = "PICK_FAILED"
        /\ pick.status = "UNAVAILABLE"
        /\ pick.subchannel = NoSubchannel

----------------------------------------------------------------------------
(* Properties of the call attribute *)

\* C11: a Pick whose call attribute is missing or does not parse as an
\* unsigned 64-bit decimal returns PICK_FAILED with status INTERNAL and no
\* subchannel, runs no lookup, collects no connection attempt, and writes
\* neither the policy, nor the subchannel list, nor the ring.
C11_HashErrorFails ==
    /\ [](pick.done /\ ~SimpleAtoi(pick.hash).ok =>
            /\ pick.type = "PICK_FAILED"
            /\ pick.status = "INTERNAL"
            /\ pick.subchannel = NoSubchannel
            /\ ~pick.parsed
            /\ ~pick.walked
            /\ pick.attempts = <<>>)
    /\ [][pick' # pick =>
              UNCHANGED <<subchannel_list_, shutdown_, published, pending, last, ring_>>]_vars

\* C11 witness: a Pick failed on an attribute of digits whose value does not
\* fit, on a ring whose every entry is READY.
C11_Witness ==
    /\ pick.done
    /\ ~pick.parsed
    /\ pick.hash # <<>>
    /\ \A k \in DOMAIN pick.hash : IsDigit(pick.hash[k])
    /\ \A k \in DOMAIN ring_ : ring_[k].connectivity_state = READY

----------------------------------------------------------------------------
(* Properties of the ring builder *)

\* C13 (as claimed): the ring the builder ends with has ceil(scale) entries,
\* and that number lies between min_ring_size and max_ring_size.
C13_RingSizeBounds ==
    built.done =>
        /\ built.size = built.ring_size
        /\ built.min_ring_size <= built.size
        /\ built.size <= built.max_ring_size

\* The least weight of the addresses of the built ring.
MinWeight ==
    CHOOSE w \in {WeightOf(built.addresses[i]) : i \in DOMAIN built.addresses} :
        \A i \in DOMAIN built.addresses : w <= WeightOf(built.addresses[i])

\* C14 (as claimed): every subchannel owns at least one entry of the built
\* ring, and a least-weighted subchannel owns at least
\* ceil(min_normalized_weight * min_ring_size) entries, capped scale or not.
C14_MinimumCoverage ==
    built.done =>
        \A i \in DOMAIN built.counts :
            /\ built.counts[i] >= 1
            /\ WeightOf(built.addresses[i]) = MinWeight
                   => built.counts[i] * built.sum >= MinWeight * built.min_ring_size

\* C15 (as claimed): on a built ring of N entries, the entries subchannel i
\* owns differ from N * w_i / sum(w) by at most one.
C15_Proportional ==
    built.done =>
        \A i \in DOMAIN built.counts :
            LET w == WeightOf(built.addresses[i])
            IN  /\ built.counts[i] * built.sum <= built.size * w + built.sum
                /\ built.size * w <= built.counts[i] * built.sum + built.sum

----------------------------------------------------------------------------
(* Properties of Picks and attempter tasks against the control plane *)

\* C16: once the policy is shut down no step calls AttemptToConnect: neither
\* the task of an attempter whose Pick collected subchannels before the
\* shutdown, nor a connectivity callback.
C16_NoAttemptAfterShutdown == shutdown_ => calls.attempts = <<>>

\* C16 witness: a Pick collected subchannels, the policy was shut down, and
\* then the attempter's task ran.
C16_Witness ==
    /\ shutdown_
    /\ calls.op = "Task"
    /\ Len(calls.collected) >= 2

\* C17: a connectivity callback of a list that is not the current one, replaced
\* by an update or reset by shutdown, calls neither UpdateState nor
\* AttemptToConnect, and no step that finds the policy shut down calls
\* UpdateState.
C17_OnlyCurrentListPublishes ==
    /\ calls.stale => calls.updates = 0 /\ calls.attempts = <<>>
    /\ shutdown_ => calls.updates = 0

\* C17 witness: the first list, of two subchannels, was replaced by a list that
\* is still current, and then one of its subchannels reported
\* TRANSIENT_FAILURE.
C17_Witness ==
    /\ calls.stale
    /\ ~shutdown_
    /\ generation = 2
    /\ subchannel_list_ # NoList
    /\ num_subchannels(orphaned[1]) >= 2
    /\ \E i \in DOMAIN orphaned[1].sd :
           orphaned[1].sd[i].last_connectivity_state_ = TRANSIENT_FAILURE

\* The attempters without the one in position k.
WithoutAttempter(k) == SubSeq(attempters, 1, k - 1) \o SubSeq(attempters, k + 1, Len(attempters))

\* C18: a Pick calls AttemptToConnect on nothing and leaves what it collected
\* in a new attempter; only the task of an attempter takes it away, and when
\* the policy is not shut down that task calls AttemptToConnect once per
\* collected reference, in order; while an attempter is pending, a task is
\* run.
C18_AttemptsOnlyFromTask ==
    /\ [][/\ calls'.op = "Pick" =>
               /\ calls'.attempts = <<>>
               /\ attempters' = IF calls'.collected = <<>> THEN attempters
                                ELSE Append(attempters, [subchannels |-> calls'.collected])
          /\ calls'.op = "Task" =>
               /\ \E k \in DOMAIN attempters :
                      /\ attempters[k].subchannels = calls'.collected
                      /\ attempters' = WithoutAttempter(k)
               /\ ~shutdown_ => calls'.attempts = calls'.collected
          /\ calls'.op \notin {"Pick", "Task"} => attempters' = attempters]_vars
    /\ (attempters # <<>>) ~> (calls.op = "Task")

\* C18 witness: while the policy was not shut down, a task ran an attempter
\* that had collected the same subchannel twice, and attempted it twice.
C18_Witness ==
    /\ calls.op = "Task"
    /\ ~shutdown_
    /\ Len(calls.collected) >= 3
    /\ calls.collected[2] = calls.collected[3]
    /\ calls.attempts = calls.collected

\* C19: every subchannel in the ring of a Picker that is alive, and every
\* subchannel an attempter that is pending collected, has a reference count
\* above zero, whatever update or shutdown dropped its list; no Pick returned
\* or collected, and no step attempted, a subchannel nothing referenced.
C19_NoUseAfterFree ==
    /\ ~calls.dangling
    /\ \A slot \in DOMAIN pickers :
           pickers[slot].live =>
               \A k \in DOMAIN pickers[slot].ring :
                   refs[pickers[slot].ring[k].subchannel] > 0
    /\ \A a \in DOMAIN attempters :
           \A k \in DOMAIN attempters[a].subchannels :
               refs[attempters[a].subchannels[k]] > 0

\* C19 witness: the first list was replaced and every Picker destroyed, and then
\* the task of an attempter called AttemptToConnect on subchannels of the
\* first list, which only the attempter still referenced.
C19_Witness ==
    /\ calls.op = "Task"
    /\ calls.attempts # <<>>
    /\ generation = 2
    /\ \A slot \in DOMAIN pickers : ~pickers[slot].live
    /\ \A k \in DOMAIN calls.attempts :
           /\ calls.attempts[k] < SubchannelId(2, 0)
           /\ refs[calls.attempts[k]] = 0

\* C20: no step changes the ring of a Picker that is alive, be it a Pick, a
\* connectivity callback, an update or shutdown: the Picker stays as built
\* until it is destroyed, and a Picker that is alive has its whole ring, two
\* entries for every subchannel of its list, sorted by hash.
C20_PickerImmutable ==
    [][\A slot \in DOMAIN pickers :
           /\ pickers[slot].live =>
                  \/ pickers'[slot] = pickers[slot]
                  \/ calls'.op = "~Picker" /\ pickers'[slot] = NoPicker
           /\ pickers'[slot].live =>
                  LET ring == pickers'[slot].ring
                      g == pickers'[slot].generation
                      list == IF g \in DOMAIN orphaned' THEN orphaned'[g] ELSE subchannel_list_'
                  IN  /\ Len(ring) = 2 * num_subchannels(list)
                      /\ \A k \in 1..(Len(ring) - 1) : ring[k].hash <= ring[k + 1].hash]_vars

\* C20 witness: a Pick ran while two Pickers built from the same list were
\* alive, the later one with other connectivity states than the earlier.
C20_Witness ==
    /\ calls.op = "Pick"
    /\ pickers[1].live
    /\ pickers[2].live
    /\ pickers[1].generation = pickers[2].generation
    /\ pickers[1].ring # pickers[2].ring
    /\ notified[pickers[1].generation] > 0

----------------------------------------------------------------------------
(* Properties of updates *)

\* C21: an update whose addresses all carry weight 0 (none at all included)
\* leaves an empty subchannel list with no subchannel counted, makes one
\* UpdateState call, TRANSIENT_FAILURE with status UNAVAILABLE and a
\* TransientFailurePicker, and requests no connection attempt.
C21_EmptyUpdateFails ==
    (/\ last.op = "UpdateLocked"
     /\ \A k \in DOMAIN last.addresses :
            last.addresses[k].has_weight /\ last.addresses[k].weight = 0)
    => /\ subchannel_list_ = NewSubchannelList(0)
       /\ published = [state |-> TRANSIENT_FAILURE, status |-> "UNAVAILABLE",
                       picker |-> "TransientFailurePicker"]
       /\ last.updates = <<published>>
       /\ last.attempts = <<>>

\* C21 witness: an update of two addresses, both of weight 0, was handled.
C21_Witness ==
    /\ last.op = "UpdateLocked"
    /\ Len(last.addresses) = 2
    /\ \A k \in DOMAIN last.addresses :
           last.addresses[k].has_weight /\ last.addresses[k].weight = 0
    /\ published.picker = "TransientFailurePicker"

\* The positions of the addresses of an update that carry no weight attribute
\* or a positive weight.
Positive(addresses) ==
    {k \in DOMAIN addresses : ~addresses[k].has_weight \/ addresses[k].weight > 0}

----------------------------------------------------------------------------
(* Properties of the connectivity callbacks *)

\* C23: a callback calls RequestReresolution once when it reports
\* TRANSIENT_FAILURE, latch set or not, and not at all when it reports another
\* state; an update, which records IDLE for every subchannel it starts to
\* watch, does not call it.
C23_Reresolution ==
    /\ last.op = "ProcessConnectivityChangeLocked" =>
           last.reresolutions = IF last.state = TRANSIENT_FAILURE THEN 1 ELSE 0
    /\ last.op = "UpdateLocked" => last.reresolutions = 0

\* C23 witness: a callback reported TRANSIENT_FAILURE for a subchannel that is
\* not counted in TRANSIENT_FAILURE alone: two subchannels have their latch set.
C23_Witness ==
    /\ last.op = "ProcessConnectivityChangeLocked"
    /\ last.state = TRANSIENT_FAILURE
    /\ last.reresolutions = 1
    /\ subchannel_list_.num_transient_failure_ = 2
    /\ Cardinality({i \in DOMAIN subchannel_list_.sd :
                       subchannel_list_.sd[i].seen_failure_since_ready_}) = 2

\* address_weights[1].normalized_weight + ... in binary64, in list order.
RECURSIVE SumOfNormalizedWeights(_, _)
SumOfNormalizedWeights(address_weights, total) ==
    IF address_weights = <<>> THEN total
    ELSE SumOfNormalizedWeights(Tail(address_weights), DoubleAdd(total, Head(address_weights)))

\* C24 (as claimed): after an update the list holds the addresses of absent or
\* positive weight, in input order, and no other; when there are any, the
\* Picker constructor passes its assertion on the weights, and the
\* normalized weights it computes add up to 1.
C24_WeightFilter ==
    last.op = "UpdateLocked" =>
        LET kept == [k \in 1..Cardinality(Positive(last.addresses)) |->
                        last.addresses[CHOOSE p \in Positive(last.addresses) :
                            Cardinality({q \in Positive(last.addresses) : q <= p}) = k]]
        IN  /\ num_subchannels(subchannel_list_) = Len(kept)
            /\ kept # <<>> =>
                   /\ built.done
                   /\ built.addresses = kept
                   /\ \A i \in DOMAIN built.addresses : WeightOf(built.addresses[i]) >= 1
                   /\ SumOfNormalizedWeights(
                          NormalizedWeights(built.addresses, built.sum), Zero) = DoubleOf(1)

\* C25: a callback after which a subchannel is counted READY makes one
\* UpdateState call, READY with a ring Picker, and calls AttemptToConnect on
\* nothing, whatever state it reported.
C25_NoReconnectWhileReady ==
    (last.op = "ProcessConnectivityChangeLocked" /\ subchannel_list_.num_ready_ > 0)
    => /\ published = [state |-> READY, status |-> "OK", picker |-> "Picker"]
       /\ last.updates = <<published>>
       /\ last.attempts = <<>>

\* C25 witness: a callback reported TRANSIENT_FAILURE for one subchannel while
\* another one was counted READY.
C25_Witness ==
    /\ last.op = "ProcessConnectivityChangeLocked"
    /\ last.state = TRANSIENT_FAILURE
    /\ subchannel_list_.num_ready_ > 0
    /\ subchannel_list_.num_transient_failure_ > 0
    /\ \E i \in DOMAIN subchannel_list_.sd :
           /\ i # last.index
           /\ subchannel_list_.sd[i].last_connectivity_state_ = READY

----------------------------------------------------------------------------
(* Properties of a membership change *)

\* C26: when an endpoint is removed and the ring is rebuilt with the same
\* config, every request hash whose lookup resolved to an endpoint that is
\* left resolves to the same endpoint on the new ring.
C26_SurvivorsKeepTheirKeys ==
    membership.stage = "sorted" =>
        \A h \in Hashes :
            LET before == Pick(membership.before_ring, h).subchannel
                after == Pick(membership.after_ring, h).subchannel
            IN  before # membership.removed => after = before

----------------------------------------------------------------------------
(* Properties of the fallback loop of Pick *)

\* The entry at offset i from the entry the lookup of the last Pick chose.
WalkEntry(i) == At(ring_, (pick.first_index + i) % Len(ring_))

\* The offsets whose entry is of another subchannel than the chosen entry's:
\* the entries the loop does not skip.
OtherOffsets ==
    {i \in 1..(Len(ring_) - 1) :
        WalkEntry(i).subchannel # At(ring_, pick.first_index).subchannel}

\* The first of them, 0 when there is none.
FirstOtherOffset ==
    IF OtherOffsets = {} THEN 0
    ELSE CHOOSE i \in OtherOffsets : \A j \in OtherOffsets : i <= j

\* C27: a Pick that entered the fallback loop returns QUEUE exactly when the
\* first entry of another subchannel than the chosen one's is CONNECTING; a
\* CONNECTING entry after an entry of another subchannel does not queue it.
C27_QueueOnlyOnFirstOther ==
    (pick.done /\ pick.walked) =>
        (pick.type = "PICK_QUEUE"
            <=> (/\ FirstOtherOffset # 0
                 /\ WalkEntry(FirstOtherOffset).connectivity_state = CONNECTING))

\* C27 witness: a Pick that failed although the loop passed a CONNECTING entry
\* of another subchannel.
C27_Witness ==
    /\ pick.done
    /\ pick.walked
    /\ pick.type = "PICK_FAILED"
    /\ \E i \in OtherOffsets : WalkEntry(i).connectivity_state = CONNECTING

\* Whether the loop collects an attempt at offset i according to the rule:
\* the entry is of another subchannel, it is TRANSIENT_FAILURE or IDLE, and
\* every entry of another subchannel before it is TRANSIENT_FAILURE.
CollectedAt(i) ==
    /\ i \in OtherOffsets
    /\ WalkEntry(i).connectivity_state \in {TRANSIENT_FAILURE, IDLE}
    /\ \A j \in OtherOffsets :
           j < i => WalkEntry(j).connectivity_state = TRANSIENT_FAILURE

\* The offsets of the loop at which the rule collects, in order.
CollectedOffsets == SelectSeq([i \in 1..(Len(ring_) - 1) |-> i], CollectedAt)

\* C28: the attempts a Pick collects in the fallback loop are, in order, those
\* on the TRANSIENT_FAILURE entries of other subchannels before the first IDLE
\* or CONNECTING one, then on that entry if it is IDLE, and none after it: at
\* most one IDLE entry is among them.
C28_AttemptsUpToFirstNonFailed ==
    (pick.done /\ pick.walked) =>
        /\ Tail(pick.attempts) =
               [k \in DOMAIN CollectedOffsets |-> WalkEntry(CollectedOffsets[k]).subchannel]
        /\ Cardinality({k \in DOMAIN CollectedOffsets :
                           WalkEntry(CollectedOffsets[k]).connectivity_state = IDLE}) <= 1

\* C28 witness: the loop collected attempts on a TRANSIENT_FAILURE entry and
\* then on an IDLE one, and passed a later IDLE and a later TRANSIENT_FAILURE
\* entry of other subchannels without collecting.
C28_Witness ==
    /\ pick.done
    /\ pick.walked
    /\ Len(pick.attempts) = 3
    /\ WalkEntry(CollectedOffsets[2]).connectivity_state = IDLE
    /\ \E i \in OtherOffsets : \E j \in OtherOffsets :
           /\ i > CollectedOffsets[2]
           /\ j > CollectedOffsets[2]
           /\ WalkEntry(i).connectivity_state = IDLE
           /\ WalkEntry(j).connectivity_state = TRANSIENT_FAILURE

\* The offsets of the READY entries of other subchannels.
ReadyOffsets == {i \in OtherOffsets : WalkEntry(i).connectivity_state = READY}

\* How many entries of the ring are of subchannel c.
EntriesOf(c) == Cardinality({k \in 0..(Len(ring_) - 1) : At(ring_, k).subchannel = c})

\* C29: the fallback loop goes through the offsets 1, 2, ... from the chosen
\* entry in order and once: what it returns is the first READY entry of
\* another subchannel in that order, it collects no more attempts on a
\* subchannel than the ring has entries of it, and it neither returns nor
\* collects the chosen entry's subchannel.  On a ring of one subchannel the
\* state of that subchannel decides: READY is COMPLETE with it, IDLE and
\* CONNECTING are QUEUE, TRANSIENT_FAILURE is FAIL, and nothing but the chosen
\* entry is collected.
C29_WalkSkipsChosenEndpoint ==
    (pick.done /\ pick.parsed) =>
        LET chosen == At(ring_, pick.first_index)
        IN  /\ pick.walked =>
                /\ pick.subchannel # chosen.subchannel
                /\ \A k \in 2..Len(pick.attempts) : pick.attempts[k] # chosen.subchannel
                /\ \A k \in DOMAIN pick.attempts :
                       TimesAttempted(pick.attempts[k]) <= EntriesOf(pick.attempts[k])
                /\ pick.type = "PICK_COMPLETE" =>
                       /\ ReadyOffsets # {}
                       /\ \E i \in ReadyOffsets :
                              /\ \A j \in ReadyOffsets : i <= j
                              /\ pick.subchannel = WalkEntry(i).subchannel
            /\ OtherOffsets = {} =>
                /\ chosen.connectivity_state = READY =>
                       pick.type = "PICK_COMPLETE" /\ pick.subchannel = chosen.subchannel
                /\ chosen.connectivity_state \in {IDLE, CONNECTING} =>
                       pick.type = "PICK_QUEUE"
                /\ chosen.connectivity_state = TRANSIENT_FAILURE =>
                       pick.type = "PICK_FAILED" /\ pick.subchannel = NoSubchannel
                /\ Len(pick.attempts) <= 1

\* C29 witness: the loop passed an entry of the chosen entry's subchannel
\* before it returned a READY entry of another subchannel.
C29_Witness ==
    /\ pick.done
    /\ pick.walked
    /\ pick.type = "PICK_COMPLETE"
    /\ \E i \in ReadyOffsets :
           /\ pick.subchannel = WalkEntry(i).subchannel
           /\ \E j \in 1..(i - 1) : j \notin OtherOffsets

----------------------------------------------------------------------------
(* Properties of the reported state *)

\* C30 (as claimed): after the policy reported TRANSIENT_FAILURE or IDLE, its
\* next report is TRANSIENT_FAILURE, IDLE or READY, never CONNECTING.
C30_NoConnectingAfterFailure ==
    [][published.state \in {TRANSIENT_FAILURE, IDLE} => published'.state # CONNECTING]_vars

----------------------------------------------------------------------------
(* Properties of the loops of Pick *)

\* C31: a Pick that is called returns.  Every index of ring_ its binary search
\* reads is within the ring, every iteration that does not break makes
\* highp - lowp smaller, the for loop runs its body at most ring_.size() - 1
\* times, and what is returned is what Pick returns.
C31_PickTerminates ==
    /\ [](frame.pc # "none" =>
              /\ frame.pc # "fault"
              /\ frame.reads \subseteq 0..(Len(ring_) - 1)
              /\ frame.walk_iterations <= Len(ring_) - 1
              /\ frame.pc = "returned" =>
                     LET result == Pick(ring_, frame.h)
                     IN  /\ frame.first_index = result.first_index
                         /\ frame.type = result.type
                         /\ frame.subchannel = result.subchannel
                         /\ frame.attempts = result.attempts)
    /\ [][(frame.pc = "search" /\ frame'.pc = "search") =>
              frame'.highp - frame'.lowp < frame.highp - frame.lowp]_vars
    /\ (frame.pc = "search") ~> (frame.pc = "returned")

\* C31 witness: a Pick returned after three iterations of the binary search
\* and ring_.size() - 1 >= 4 iterations of the for loop.
C31_Witness ==
    /\ frame.pc = "returned"
    /\ frame.search_iterations >= 3
    /\ Len(ring_) >= 5
    /\ frame.walk_iterations = Len(ring_) - 1

\* The offsets from the chosen entry whose entry is READY.
AllReadyOffsets ==
    {i \in 1..(Len(ring_) - 1) : WalkEntry(i).connectivity_state = READY}

\* C32: a COMPLETE result carries a subchannel that is READY on the ring: the
\* chosen entry's, or after the fallback loop that of the first READY entry
\* after the chosen one in ring order.  QUEUE and FAIL results carry no
\* subchannel, and a FAIL result carries an error.
C32_ResultWellFormed ==
    pick.done =>
        /\ pick.type \in {"PICK_COMPLETE", "PICK_QUEUE", "PICK_FAILED"}
        /\ pick.type = "PICK_COMPLETE" =>
               /\ pick.subchannel \in SubchannelsOf(ring_)
               /\ StateOnRing(ring_, pick.subchannel) = READY
               /\ ~pick.walked => pick.subchannel = At(ring_, pick.first_index).subchannel
               /\ pick.walked =>
                      /\ AllReadyOffsets # {}
                      /\ \E i \in AllReadyOffsets :
                             /\ \A j \in AllReadyOffsets : i <= j
                             /\ pick.subchannel = WalkEntry(i).subchannel
        /\ pick.type \in {"PICK_QUEUE", "PICK_FAILED"} => pick.subchannel = NoSubchannel
        /\ pick.type = "PICK_FAILED" => pick.status # "OK"

\* C32 witness: the fallback loop returned a READY entry at offset 3 or more,
\* after two attempts or more were collected.
C32_Witness ==
    /\ pick.done
    /\ pick.walked
    /\ pick.type = "PICK_COMPLETE"
    /\ Len(pick.attempts) >= 2
    /\ \A i \in AllReadyOffsets : i >= 3

----------------------------------------------------------------------------
(* Properties of the counters *)

\* C33: the assertions of UpdateStateCountersLocked hold.  In every state each
\* counter is at least the number of subchannels counted in its state, so the
\* counter a callback decrements is greater than 0, and every recorded state
\* is one of the four (never SHUTDOWN); in every callback the counters are at
\* least 0 between the decrement and the increment.
C33_AssertionsHold ==
    /\ [](subchannel_list_ # NoList =>
              /\ \A s \in ConnectivityStates :
                     /\ CountersOf(subchannel_list_)[s] >= Population(subchannel_list_, s)
                     /\ CountersOf(subchannel_list_)[s] >= 0
              /\ \A i \in DOMAIN subchannel_list_.sd :
                     subchannel_list_.sd[i].last_connectivity_state_ \in ConnectivityStates)
    /\ [][last'.op = "ProcessConnectivityChangeLocked" =>
              LET d == subchannel_list_.sd[last'.index]
                  decremented ==
                      IF ~d.seen_failure_since_ready_
                      THEN DecrementOld(subchannel_list_, d.last_connectivity_state_,
                                        last'.state)
                      ELSE IF last'.state = READY
                      THEN DecrementOld(subchannel_list_, TRANSIENT_FAILURE, last'.state)
                      ELSE subchannel_list_
              IN  \A s \in ConnectivityStates : CountersOf(decremented)[s] >= 0]_vars

\* C33 witness: a callback reported READY on the last of three subchannels
\* that was not READY, and its decrement left the three other counters at 0.
C33_Witness ==
    /\ AfterCallback
    /\ last.state = READY
    /\ subchannel_list_ # NoList
    /\ num_subchannels(subchannel_list_) = 3
    /\ subchannel_list_.num_ready_ = 3
    /\ subchannel_list_.num_idle_ = 0
    /\ subchannel_list_.num_connecting_ = 0
    /\ subchannel_list_.num_transient_failure_ = 0

----------------------------------------------------------------------------
(* Properties of the policy's lifetime *)

\* C34: the references to the policy are one per subchannel list that exists
\* (the current one and those replaced or reset and not yet destroyed), one per
\* Picker, one per QueuePicker and one per attempter, besides the owner's; the
\* policy is not destroyed while it has a current list, and when ~RingHash
\* runs the policy is shut down, its current list is null and the assertion
\* holds.
C34_PolicyOutlivesItsLists ==
    /\ policy.refs =
           (IF policy.owned THEN 1 ELSE 0)
               + (IF subchannel_list_ = NoList THEN 0 ELSE 1)
               + policy.orphaned_lists + policy.ring_pickers + policy.queue_pickers
               + policy.attempters
    /\ subchannel_list_ # NoList => (~policy.destroyed /\ policy.refs >= 1)
    /\ policy.destroyed =>
           /\ policy.refs = 0
           /\ shutdown_
           /\ subchannel_list_ = NoList
           /\ policy.asserted

\* C34 witness: ~RingHash ran on a policy that had published a Picker for a
\* list; every list, picker and attempter had released its reference.
C34_Witness ==
    /\ policy.destroyed
    /\ policy.asserted
    /\ published.picker = "Picker"
    /\ policy.orphaned_lists = 0
    /\ policy.ring_pickers = 0

====
